---- MODULE Spec2Model ----
(***************************************************************************)
(* Verification model of the HTTP library's client connection pool         *)
(* (src/src/client/pool.rs) and of the client's retry of canceled requests *)
(* (src/src/client/mod.rs).                                                *)
(*                                                                         *)
(* Pool model.  A connection is identified by the number of the            *)
(* Connecting handle that produced it.  A value of an HTTP/1 key reserves  *)
(* Unique, a value of an HTTP/2 key reserves Shared(keep, give), where     *)
(* keep and give are two handles of the same connection.  Every method     *)
(* that takes the pool's mutex is one atomic action.  Dropping a Checkout  *)
(* is two steps, because the receiver is dropped before the mutex is       *)
(* taken.                                                                  *)
(***************************************************************************)
EXTENDS Integers, Sequences, FiniteSets, TLC

\* ------------------------------------------------------------------ bounds
MaxObjs == 3
IdleTimeout == 1
MaxSends == 3
MaxIters == 18
MaxAccepts == 4
MaxBacklog == 2
MaxLen == 2
MaxWire == 3
MaxChunks == 3
MaxWrites == 3
MaxConstructs == 2

\* ------------------------------------------------------------ pool: types
Hosts == {"a"}
Vers == {"Http1", "Http2"}
AllKeys == Hosts \X Vers
NoKey == <<"", "Http1">>

\* Connecting handles and Checkouts are numbered as they are created; a run
\* creates at most MaxObjs of them in total.
ConnIds == 1..MaxObjs
CkIds == 1..MaxObjs

\* Option<Duration>: None, or Some(dur)
Timeouts == {[some |-> FALSE, dur |-> 0], [some |-> TRUE, dur |-> IdleTimeout]}

VARIABLES
    enabled,        \* PoolInner.enabled
    timeout,        \* PoolInner.timeout
    poolAlive,      \* some strong reference to the pool's Arc exists
    connecting,     \* PoolInner.connecting, a set of keys
    idle,           \* PoolInner.idle: key -> list of [conn, idle_for], Vec order;
                    \* idle_for is idle_at.elapsed(), counted up to IdleTimeout + 1
    idleKeys,       \* the keys that the idle map holds
    parked,         \* PoolInner.parked: key -> queue of senders (checkout ids)
    parkedKeys,     \* the keys that the parked map holds
    conn,           \* Connecting handle / connection: [st, key, closed]; a value that
                    \* was dropped is "gone" ("popped" by take, "evicted" by the interval)
    pooledH,        \* live Pooled handles: conn -> [fresh, reused] counts
    ck,             \* Checkout futures: [st, key, val]
    returned,       \* the connections whose value a dropped Pooled gave back to the pool
    interval,       \* the IdleInterval task: "none", "running", "done"
    ver,            \* the protocol version of the client that owns the pool
    rq,             \* client: the state of one RetryableSendRequest
    dp,             \* proto::h1: one Dispatcher and its Conn
    sv,             \* server: one run of Server::run_until
    rd,             \* http: one server Request, its HttpReader and its stream
    wr              \* http: one server Response and its HttpWriter

poolVars == <<enabled, timeout, poolAlive, connecting, idle, idleKeys, parked, parkedKeys, conn, pooledH,
              ck, returned, interval, ver>>
vars == <<enabled, timeout, poolAlive, connecting, idle, idleKeys, parked, parkedKeys, conn, pooledH, ck,
          returned, interval, ver, rq, dp, sv, rd, wr>>
\* what the pool's operations, the client's, the dispatcher's and the server's leave alone
nonPool == <<rq, dp, sv, rd, wr>>
nonRetry == <<poolVars, dp, sv, rd, wr>>
nonDispatch == <<poolVars, rq, sv, rd, wr>>
nonServer == <<poolVars, rq, dp, rd, wr>>
nonReader == <<poolVars, rq, dp, sv, wr>>
nonWriter == <<poolVars, rq, dp, sv, rd>>

\* ---------------------------------------------------------- pool: helpers
IsH2(key) == key[2] = "Http2"

\* Poolable::reserve: Unique for HTTP/1, Shared(keep, give) for HTTP/2
IsShared(c) == IsH2(conn[c].key)

\* Poolable::is_closed
IsClosed(c) == conn[c].closed

RECURSIVE SeqSet(_)
SeqSet(s) == IF s = <<>> THEN {} ELSE {Head(s)} \cup SeqSet(Tail(s))

\* Expiration::expires: instant.elapsed() > timeout
\* (mutant: nothing ever expires)
Expires_Never(to, idle_for) == FALSE
Expires(to, idle_for) == to.some /\ (idle_for > to.dur)

\* oneshot::Sender::is_canceled of the sender of checkout i: its receiver is gone
IsCanceled(cks, i) == cks[i].st \in {"rxdropped", "dropped"}


\* ------------------------------------------------------ IdlePopper::pop
\* Scans the list from its end; entries that are closed or expired are
\* dropped.  Returns the connection found (0 for None) and the list left.
\* (mutant: a Unique entry is handed out and left in the list)
RECURSIVE Pop_Keep(_, _, _)
Pop_Keep(list, cn, to) ==
    IF list = <<>> THEN [found |-> 0, list |-> <<>>]
    ELSE LET n == Len(list)
             entry == list[n]
             rest == SubSeq(list, 1, n - 1)
         IN  IF cn[entry.conn].closed \/ Expires(to, entry.idle_for)
             THEN Pop_Keep(rest, cn, to)
             ELSE [found |-> entry.conn,
                   list |-> Append(rest, [conn |-> entry.conn, idle_for |-> 0])]

RECURSIVE Pop(_, _, _)
Pop(list, cn, to) ==
    IF list = <<>> THEN [found |-> 0, list |-> <<>>]
    ELSE LET n == Len(list)
             entry == list[n]
             rest == SubSeq(list, 1, n - 1)
         IN  IF cn[entry.conn].closed \/ Expires(to, entry.idle_for)
             THEN Pop(rest, cn, to)
             ELSE IF IsH2(cn[entry.conn].key)
                  THEN [found |-> entry.conn,
                        list |-> Append(rest, [conn |-> entry.conn, idle_for |-> 0])]
                  ELSE [found |-> entry.conn, list |-> rest]

\* ---------------------------------------------------------- Pool::take
\* A value whose last handle take drops with its popped entry is "popped".
\* The key's list after take (an empty list stands for a removed key).
Take(key) == Pop(idle[key], conn, timeout)
\* (a take that never removes the key)
TakeKeys_Keep(key) == idleKeys
\* The keys of the idle map after take: the key is removed when no entry
\* was found or the list is left empty.
TakeKeys(key) ==
    IF Take(key).found = 0 \/ Take(key).list = <<>> THEN idleKeys \ {key} ELSE idleKeys

\* -------------------------------------------------------- PoolInner::put
\* The scan of the parked queue: senders already canceled are skipped, a
\* sender whose receiver goes away between is_canceled() and send() (a
\* racer) gives the value back, a Unique value stops at the first send, a
\* Shared value is sent to every waiter.
\* (mutant: the value goes to the head of the queue, canceled or not)
PutScan_Head(q, cks, racers, shared) ==
    IF q = <<>> THEN [rest |-> <<>>, has |-> TRUE, got |-> {}]
    ELSE [rest |-> Tail(q), has |-> FALSE, got |-> {Head(q)}]

\* (mutant: the value that a failed send gives back is dropped)
RECURSIVE PutScan_DropsOnRace(_, _, _, _)
PutScan_DropsOnRace(q, cks, racers, shared) ==
    IF q = <<>> THEN [rest |-> <<>>, has |-> TRUE, got |-> {}]
    ELSE LET tx == Head(q) IN
         IF IsCanceled(cks, tx)
         THEN PutScan_DropsOnRace(Tail(q), cks, racers, shared)
         ELSE IF tx \in racers
              THEN [rest |-> Tail(q), has |-> FALSE, got |-> {}]
         ELSE IF shared
              THEN LET r == PutScan_DropsOnRace(Tail(q), cks, racers, shared)
                   IN  [r EXCEPT !.got = @ \cup {tx}]
              ELSE [rest |-> Tail(q), has |-> FALSE, got |-> {tx}]

RECURSIVE PutScan(_, _, _, _)
PutScan(q, cks, racers, shared) ==
    IF q = <<>> THEN [rest |-> <<>>, has |-> TRUE, got |-> {}]
    ELSE LET tx == Head(q) IN
         IF IsCanceled(cks, tx) \/ tx \in racers
         THEN PutScan(Tail(q), cks, racers, shared)
         ELSE IF shared
              THEN LET r == PutScan(Tail(q), cks, racers, shared)
                   IN  [r EXCEPT !.got = @ \cup {tx}]
              ELSE [rest |-> Tail(q), has |-> FALSE, got |-> {tx}]

\* (a put that does not look for an idle HTTP/2 entry)
PutResult_NoDup(key, c, racers) == IF ~enabled THEN "disabled" ELSE "scan"
\* The outcome of put(key, value of connection c): "disabled", "dup" (an
\* HTTP/2 key that has an idle entry), or the scan.
PutResult(key, c, racers) ==
    IF ~enabled THEN "disabled"
    ELSE IF IsH2(key) /\ key \in idleKeys THEN "dup"
    ELSE "scan"

PutParked(key, c, racers) ==
    IF PutResult(key, c, racers) # "scan" THEN parked
    ELSE [parked EXCEPT ![key] = PutScan(parked[key], ck, racers, IsShared(c)).rest]

\* (mutant: the entry is pushed to the front of the list)
PutIdle_Front(key, c, racers) ==
    IF PutResult(key, c, racers) # "scan" THEN idle
    ELSE IF PutScan(parked[key], ck, racers, IsShared(c)).has
         THEN [idle EXCEPT ![key] = <<[conn |-> c, idle_for |-> 0]>> \o @]
         ELSE idle

PutIdle(key, c, racers) ==
    IF PutResult(key, c, racers) # "scan" THEN idle
    ELSE IF PutScan(parked[key], ck, racers, IsShared(c)).has
         THEN [idle EXCEPT ![key] = Append(@, [conn |-> c, idle_for |-> 0])]
         ELSE idle

\* the keys of the idle map and of the parked map after put
PutIdleKeys(key, c, racers) ==
    IF PutResult(key, c, racers) = "scan" /\ PutScan(parked[key], ck, racers, IsShared(c)).has
    THEN idleKeys \cup {key} ELSE idleKeys
PutParkedKeys(key, c, racers) ==
    IF PutResult(key, c, racers) = "scan" /\ key \in parkedKeys
       /\ PutScan(parked[key], ck, racers, IsShared(c)).rest = <<>>
    THEN parkedKeys \ {key} ELSE parkedKeys

PutCk(key, c, racers) ==
    LET got == IF PutResult(key, c, racers) = "scan"
               THEN PutScan(parked[key], ck, racers, IsShared(c)).got ELSE {}
    IN  [i \in CkIds |->
            IF i \in got THEN [ck[i] EXCEPT !.val = c]
            ELSE IF i \in racers THEN [ck[i] EXCEPT !.st = "rxdropped"]
            ELSE ck[i]]

\* The waiters a put may race with: parked on the key, receiver still alive
Racers(key) == {i \in SeqSet(parked[key]) : ~IsCanceled(ck, i)}

\* -------------------------------------------------- PoolInner::connected
\* (mutant: the key is left in the set)
Connected_Keep(set, key) == set
\* self.connecting.remove(key)
Connected(set, key) == set \ {key}

\* self.parked.remove(key): the senders of the key's waiters are dropped
\* (mutant: the waiters are left in the map)
ConnectedParked_Keep(p, key) == p
ConnectedParked(p, key) == [p EXCEPT ![key] = <<>>]

\* Pool::spawn_expired_interval: the task is spawned when the pool is
\* enabled, has no task yet (idle_interval_ref is None) and has a timeout.
\* Pool::new spawns nothing.
SpawnExpiredInterval(en, to, iv) == IF en /\ iv = "none" /\ to.some THEN "running" ELSE iv

\* ------------------------------------------------------------------- Init
PoolInit ==
    /\ enabled \in BOOLEAN
    /\ timeout \in Timeouts
    /\ poolAlive = TRUE
    /\ connecting = {}
    /\ idle = [k \in AllKeys |-> <<>>]
    /\ idleKeys = {}
    /\ parked = [k \in AllKeys |-> <<>>]
    /\ parkedKeys = {}
    /\ returned = {}
    /\ conn = [c \in ConnIds |-> [st |-> "unused", key |-> NoKey, closed |-> FALSE]]
    /\ pooledH = [c \in ConnIds |-> [fresh |-> 0, reused |-> 0]]
    /\ ck = [i \in CkIds |-> [st |-> "unused", key |-> NoKey, val |-> 0]]
    /\ interval = "none"
    /\ ver \in Vers

\* The last handle of a connection was dropped: the value is gone.
Referenced(c, idl, cks, ph) ==
    \/ ph[c].fresh + ph[c].reused > 0
    \/ \E k \in AllKeys : \E n \in 1..Len(idl[k]) : idl[k][n].conn = c
    \/ \E i \in CkIds : cks[i].st = "parked" /\ cks[i].val = c

Dropped(cn, idl, cks, ph) ==
    [c \in ConnIds |->
        IF cn[c].st = "open" /\ ~Referenced(c, idl, cks, ph)
        THEN [st |-> "gone", key |-> NoKey, closed |-> FALSE]
        ELSE cn[c]]

\* The keys of the client's requests
Keys == Hosts \X {ver}

\* The number of the next Connecting handle / Checkout (0 when none is left)
Created == Cardinality({c \in ConnIds : conn[c].st # "unused"}) + Cardinality({i \in CkIds : ck[i].st # "unused"})
NextConn == IF Created < MaxObjs
            THEN CHOOSE c \in ConnIds : conn[c].st = "unused" /\ \A d \in 1..(c - 1) : conn[d].st # "unused"
            ELSE 0
NextCk == IF Created < MaxObjs
          THEN CHOOSE i \in CkIds : ck[i].st = "unused" /\ \A j \in 1..(i - 1) : ck[j].st # "unused"
          ELSE 0


\* ----------------------------------------------------- Pool::connecting
\* Some(Connecting) or None
ConnectingGrants_Always(key) == TRUE
ConnectingGrants(key) == ~IsH2(key) \/ key \notin connecting

Connecting(key) ==
    /\ poolAlive
    /\ NextConn # 0
    /\ IF ConnectingGrants(key)
       THEN /\ conn' = [conn EXCEPT ![NextConn] = [st |-> "connecting", key |-> key, closed |-> FALSE]]
            /\ connecting' = IF IsH2(key) THEN connecting \cup {key} ELSE connecting
       ELSE /\ UNCHANGED <<conn, connecting>>
    /\ UNCHANGED <<enabled, timeout, poolAlive, idle, idleKeys, parked, parkedKeys, pooledH, ck, interval,
                   ver, returned, nonPool>>

\* ------------------------------------------------------- Checkout::poll
\* poll_parked of a checkout that holds a receiver
PollParked(i) ==
    /\ ck[i].st = "parked"
    /\ IF ck[i].val # 0
       THEN IF ~IsClosed(ck[i].val)
            THEN /\ ck' = [ck EXCEPT ![i].st = "done"]
                 /\ pooledH' = [pooledH EXCEPT ![ck[i].val].reused = @ + 1]
            ELSE /\ ck' = [ck EXCEPT ![i].st = "failed", ![i].val = 0]
                 /\ pooledH' = pooledH
       ELSE /\ i \notin SeqSet(parked[ck[i].key])
            /\ ck' = [ck EXCEPT ![i].st = "failed"]
            /\ pooledH' = pooledH
    /\ UNCHANGED <<enabled, timeout, poolAlive, connecting, idle, idleKeys, parked, parkedKeys, interval,
                   ver, returned, nonPool>>
    /\ conn' = Dropped(conn, idle', ck', pooledH')

\* pool.checkout(key) and the first poll of the Checkout: poll_parked finds
\* no receiver, Pool::take looks for an idle entry under the pool's mutex.
\* When there is none the checkout is "polling": take has released the
\* mutex and Checkout::park has not yet taken it.
PollTake(key) ==
    /\ poolAlive
    /\ NextCk # 0
    /\ LET i == NextCk
           t == Take(key)
       IN  /\ idle' = [idle EXCEPT ![key] = t.list]
           /\ idleKeys' = TakeKeys(key)
           /\ IF t.found # 0
              THEN /\ ck' = [ck EXCEPT ![i] = [st |-> "done", key |-> key, val |-> t.found]]
                   /\ pooledH' = [pooledH EXCEPT ![t.found].reused = @ + 1]
                   /\ UNCHANGED <<parked, parkedKeys>>
              ELSE /\ ck' = [ck EXCEPT ![i] = [st |-> "polling", key |-> key, val |-> 0]]
                   /\ pooledH' = pooledH
                   /\ UNCHANGED <<parked, parkedKeys>>
    /\ UNCHANGED <<enabled, timeout, poolAlive, connecting, interval, ver, returned, nonPool>>
    /\ conn' = [c \in ConnIds |->
                    IF conn[c].st = "open" /\ Dropped(conn, idle', ck', pooledH')[c].st = "gone"
                    THEN [st |-> "popped", key |-> NoKey, closed |-> FALSE]
                    ELSE conn[c]]

\* Checkout::park and Pool::park, the end of the poll that found nothing:
\* the sender of a new channel goes to the end of the key's queue
Park(i) ==
    /\ ck[i].st = "polling"
    /\ ck' = [ck EXCEPT ![i].st = "parked"]
    /\ parked' = [parked EXCEPT ![ck[i].key] = Append(@, i)]
    /\ parkedKeys' = parkedKeys \cup {ck[i].key}
    /\ UNCHANGED <<enabled, timeout, poolAlive, connecting, idle, idleKeys, conn, pooledH, interval, ver,
                   returned, nonPool>>

\* ------------------------------------------------------- Checkout::drop
\* Checkout::drop is self.parked.take(), which drops the receiver with any
\* value it holds, and then clean_parked under the mutex.  Between the two
\* the sender of a parked checkout is in the queue and is_canceled().  A
\* checkout that is not parked has no sender in the queue, so nothing can
\* see it between the two steps, and its drop is one step.
DropRx(i) ==
    /\ ck[i].st = "parked"
    /\ ck' = [ck EXCEPT ![i].st = "rxdropped", ![i].val = 0]
    /\ UNCHANGED <<enabled, timeout, poolAlive, connecting, idle, idleKeys, parked, parkedKeys, pooledH,
                   interval, ver, returned, nonPool>>
    /\ conn' = Dropped(conn, idle', ck', pooledH')

\* PoolInner::clean_parked: parked.retain(|tx| !tx.is_canceled())
RECURSIVE Retain(_, _)
Retain(q, cks) ==
    IF q = <<>> THEN <<>>
    ELSE IF IsCanceled(cks, Head(q)) THEN Retain(Tail(q), cks)
    ELSE <<Head(q)>> \o Retain(Tail(q), cks)

\* (a clean_parked that never removes the key)
CleanParkedKeys_Keep(key) == parkedKeys
\* the keys of the parked map after clean_parked(key): the key is removed
\* when its queue is left empty
CleanParkedKeys(key) ==
    IF key \in parkedKeys /\ Retain(parked[key], ck) = <<>> THEN parkedKeys \ {key} ELSE parkedKeys

CleanParked(i) ==
    /\ ck[i].st \in {"done", "failed", "rxdropped"}
    /\ parked' = [parked EXCEPT ![ck[i].key] = Retain(@, ck)]
    /\ parkedKeys' = CleanParkedKeys(ck[i].key)
    /\ ck' = [ck EXCEPT ![i] = [st |-> "dropped", key |-> NoKey, val |-> 0]]
    /\ UNCHANGED <<enabled, timeout, poolAlive, connecting, idle, idleKeys, conn, pooledH, interval, ver,
                   returned, nonPool>>

\* Pool::checkout makes a Checkout that holds no receiver, and the Checkout
\* is dropped before its first poll, as a FutureResponse that is dropped
\* unpolled does to the Checkout of Client::send_request: parked.take()
\* finds nothing, clean_parked(key) drops the canceled senders of its key.
CheckoutDrop(key) ==
    /\ poolAlive
    /\ parked' = [parked EXCEPT ![key] = Retain(@, ck)]
    /\ parkedKeys' = CleanParkedKeys(key)
    /\ UNCHANGED <<enabled, timeout, poolAlive, connecting, idle, idleKeys, conn, pooledH, ck, interval,
                   ver, returned, nonPool>>

\* --------------------------------------------------------- Pool::pooled
\* The connect of handle c completed with a value that is closed or not.
Pooled(c, cl) ==
    /\ poolAlive
    /\ conn[c].st = "connecting"
    /\ LET key == conn[c].key IN
       /\ conn' = [conn EXCEPT ![c].st = "open", ![c].closed = cl]
       /\ pooledH' = [pooledH EXCEPT ![c].fresh = @ + 1]
       /\ IF IsShared(c)
          THEN \E racers \in SUBSET Racers(key) :
               /\ idle' = PutIdle(key, c, racers)
               /\ idleKeys' = PutIdleKeys(key, c, racers)
               /\ ck' = PutCk(key, c, racers)
               /\ parked' = ConnectedParked(PutParked(key, c, racers), key)
               /\ parkedKeys' = Connected(PutParkedKeys(key, c, racers), key)
               /\ connecting' = Connected(connecting, key)
          ELSE /\ UNCHANGED <<idle, idleKeys, ck, parked, parkedKeys, connecting>>
    /\ UNCHANGED <<enabled, timeout, poolAlive, interval, ver, returned, nonPool>>

\* ----------------------------------------------------- Connecting::drop
\* The connect of handle c failed, or its future was dropped.
DropConnecting(c) ==
    /\ conn[c].st = "connecting"
    /\ conn' = [conn EXCEPT ![c] = [st |-> "failed", key |-> NoKey, closed |-> FALSE]]
    /\ IF IsH2(conn[c].key) /\ poolAlive
       THEN /\ connecting' = Connected(connecting, conn[c].key)
            /\ parked' = ConnectedParked(parked, conn[c].key)
            /\ parkedKeys' = Connected(parkedKeys, conn[c].key)
       ELSE /\ UNCHANGED <<connecting, parked, parkedKeys>>
    /\ UNCHANGED <<enabled, timeout, poolAlive, idle, idleKeys, pooledH, ck, interval, ver, returned, nonPool>>

\* --------------------------------------------------------- Pooled::drop
\* The value goes to inner.put: it is not closed and the Weak upgrades.
\* (mutant: is_closed() is not looked at)
DropReinserts_Always(c) == poolAlive
DropReinserts(c) == ~IsClosed(c) /\ poolAlive

DropPooled(c, r) ==
    /\ pooledH[c][r] > 0
    /\ pooledH' = [pooledH EXCEPT ![c][r] = @ - 1]
    /\ LET key == conn[c].key IN
       IF ~DropReinserts(c)
       THEN /\ UNCHANGED <<idle, idleKeys, ck, parked, parkedKeys>>
       ELSE \E racers \in SUBSET Racers(key) :
            /\ idle' = PutIdle(key, c, racers)
            /\ idleKeys' = PutIdleKeys(key, c, racers)
            /\ ck' = PutCk(key, c, racers)
            /\ parked' = PutParked(key, c, racers)
            /\ parkedKeys' = PutParkedKeys(key, c, racers)
    /\ returned' = IF DropReinserts(c) THEN returned \cup {c} ELSE returned
    /\ UNCHANGED <<enabled, timeout, poolAlive, connecting, interval, ver, nonPool>>
    /\ conn' = Dropped(conn, idle', ck', pooledH')

\* ---------------------------------------------- PoolInner::clear_expired
RECURSIVE RetainFresh(_, _, _)
RetainFresh(list, cn, dur) ==
    IF list = <<>> THEN <<>>
    ELSE IF ~cn[Head(list).conn].closed /\ (Head(list).idle_for < dur)
         THEN <<Head(list)>> \o RetainFresh(Tail(list), cn, dur)
         ELSE RetainFresh(Tail(list), cn, dur)

\* clear_expired returns at once when the pool has no timeout
ClearExpired ==
    IF ~timeout.some THEN idle
    ELSE [k \in AllKeys |-> RetainFresh(idle[k], conn, timeout.dur)]
\* (an outer retain that keeps every key)
ClearExpiredKeys_Keep == idleKeys
\* the outer retain: a key whose list is left empty is evicted
ClearExpiredKeys == {k \in idleKeys : ClearExpired[k] # <<>>}

\* Client::schedule_pool_timer of a client whose executor is Exec::Handle,
\* at the head of Client::request
SchedulePoolTimer ==
    /\ poolAlive
    /\ interval' = SpawnExpiredInterval(enabled, timeout, interval)
    /\ interval' # interval
    /\ UNCHANGED <<enabled, timeout, poolAlive, connecting, idle, idleKeys, parked, parkedKeys, conn,
                   pooledH, ck, ver, returned, nonPool>>

\* The task ends: pool_drop_notifier is canceled and the Weak does not
\* upgrade, both once the last strong reference to the pool is dropped.
\* (mutant: a task that ends at its first poll)
IntervalEnds_Always == TRUE
IntervalEnds == ~poolAlive

\* IdleInterval::poll when the interval fires, or when the pool is gone.  A
\* value whose last handle the interval drops is "evicted".
IntervalPoll ==
    /\ interval = "running"
    /\ IF ~IntervalEnds
       THEN /\ idle' = ClearExpired
            /\ idleKeys' = ClearExpiredKeys
            /\ idle' # idle
            /\ interval' = interval
       ELSE /\ interval' = "done"
            /\ UNCHANGED <<idle, idleKeys>>
    /\ UNCHANGED <<enabled, timeout, poolAlive, connecting, parked, parkedKeys, pooledH, ck, ver, returned, nonPool>>
    /\ conn' = [c \in ConnIds |->
                    IF conn[c].st = "open" /\ Dropped(conn, idle', ck', pooledH')[c].st = "gone"
                    THEN [st |-> "evicted", key |-> NoKey, closed |-> FALSE]
                    ELSE conn[c]]

\* ----------------------------------------------------------- environment
\* The connection behind a pooled value closes: is_closed() turns true.
Close(c) ==
    /\ conn[c].st = "open"
    /\ ~conn[c].closed
    /\ conn' = [conn EXCEPT ![c].closed = TRUE]
    /\ UNCHANGED <<enabled, timeout, poolAlive, connecting, idle, idleKeys, parked, parkedKeys, pooledH, ck,
                   interval, ver, returned, nonPool>>

\* Time passes: every idle entry has been idle one tick longer.
Older(list) == [n \in 1..Len(list) |->
                 [list[n] EXCEPT !.idle_for = IF @ > timeout.dur THEN @ ELSE @ + 1]]

Tick ==
    /\ timeout.some
    /\ idle' = [k \in AllKeys |-> Older(idle[k])]
    /\ idle' # idle
    /\ UNCHANGED <<enabled, timeout, poolAlive, connecting, idleKeys, parked, parkedKeys, conn, pooledH, ck,
                   interval, ver, returned, nonPool>>

\* The last strong reference to the pool goes away (every Checkout holds one).
DropPool ==
    /\ poolAlive
    /\ \A i \in CkIds : ck[i].st \in {"unused", "dropped"}
    /\ poolAlive' = FALSE
    /\ idle' = [k \in AllKeys |-> <<>>]
    /\ idleKeys' = {}
    /\ parked' = [k \in AllKeys |-> <<>>]
    /\ parkedKeys' = {}
    /\ connecting' = {}
    /\ UNCHANGED <<enabled, timeout, pooledH, ck, interval, ver, returned, nonPool>>
    /\ conn' = Dropped(conn, idle', ck', pooledH')

PoolNext ==
    \/ \E k \in Keys : Connecting(k)
    \/ \E i \in CkIds : PollParked(i)
    \/ \E k \in Keys : PollTake(k)
    \/ \E i \in CkIds : Park(i)
    \/ \E i \in CkIds : DropRx(i)
    \/ \E i \in CkIds : CleanParked(i)
    \/ \E k \in Keys : CheckoutDrop(k)
    \/ \E c \in ConnIds, cl \in BOOLEAN : Pooled(c, cl)
    \/ \E c \in ConnIds : DropConnecting(c)
    \/ \E c \in ConnIds, r \in {"fresh", "reused"} : DropPooled(c, r)
    \/ SchedulePoolTimer
    \/ IntervalPoll
    \/ \E c \in ConnIds : Close(c)
    \/ Tick
    \/ DropPool

\* =========================================== client: retry of a request
\* One call of Client::request and the RetryableSendRequest it returns.
\* rq.sends counts the calls of Client::send_request for the request; the
\* code has no bound on them, the model stops at MaxSends.
Versions == {"HTTP_10", "HTTP_11", "HTTP_2"}
Methods == {"GET", "CONNECT"}

\* no request: the state of rq while the pool is looked at on its own
NoRequest ==
    [phase |-> "none", version |-> "HTTP_11", method |-> "GET", absolute |-> TRUE,
     retry |-> TRUE, executor |-> "Handle", uri |-> "absolute", sends |-> 0, reused |-> FALSE,
     result |-> "none"]

\* Exec: Client::new and Config::build run on a Handle, Config::executor on
\* an Executor given by the caller
Execs == {"Handle", "Executor"}

\* the requests a caller may hand to Client::request, and the client's
\* retry_canceled_requests setting (Config::retry_canceled_requests) and
\* executor
Requests ==
    {[NoRequest EXCEPT !.phase = "new", !.version = v, !.method = m, !.absolute = a, !.retry = r,
                       !.executor = e] :
        v \in Versions, m \in Methods, a \in BOOLEAN, r \in BOOLEAN, e \in Execs}

\* Client::request up to the construction of the RetryableSendRequest: the
\* error it answers with, or "none"
RequestError(r) ==
    IF r.version \notin {"HTTP_10", "HTTP_11"} THEN "Version"
    ELSE IF r.method = "CONNECT" THEN "Method"
    ELSE IF ~r.absolute THEN "Io"
    ELSE "none"

\* Client::send_request: the request's URI becomes its path, the checkout
\* races the connect
SendRequest(r) == [r EXCEPT !.uri = "path", !.sends = @ + 1, !.phase = "racing"]

\* RetryableSendRequest::poll on ClientError::Canceled: retry or give up
\* (mutant: a canceled request is retried on a fresh connection, too)
ShouldRetry_AnyConnection(retry, connection_reused) == retry
ShouldRetry(retry, connection_reused) == ~(~retry \/ ~connection_reused)

\* Client::request: schedule_pool_timer first (the task is spawned only by
\* a client whose executor is Exec::Handle), then the checks of the request
Request ==
    /\ rq.phase = "new"
    /\ interval' = IF rq.executor = "Handle"
                   THEN SpawnExpiredInterval(enabled, timeout, interval)
                   ELSE interval
    /\ rq' = IF RequestError(rq) # "none"
             THEN [rq EXCEPT !.phase = "done", !.result = RequestError(rq)]
             ELSE SendRequest(rq)
    /\ UNCHANGED <<enabled, timeout, poolAlive, connecting, idle, idleKeys, parked, parkedKeys, conn,
                   pooledH, ck, returned, ver, dp, sv, rd, wr>>

\* the race is won by the Checkout (is_reused) or by the connect (fresh)
RaceWon(reused) ==
    /\ rq.phase = "racing"
    /\ rq' = [rq EXCEPT !.phase = "sent", !.reused = reused]
    /\ UNCHANGED nonRetry

\* the connector fails: ClientError::Normal
RaceFailed ==
    /\ rq.phase = "racing"
    /\ rq' = [rq EXCEPT !.phase = "done", !.result = "Connect"]
    /\ UNCHANGED nonRetry

\* send_request_retryable resolves with the response
Responded ==
    /\ rq.phase = "sent"
    /\ rq' = [rq EXCEPT !.phase = "done", !.result = "Response"]
    /\ UNCHANGED nonRetry

\* send_request_retryable fails without giving the request back (it was
\* started): ClientError::Normal
SendFailed ==
    /\ rq.phase = "sent"
    /\ rq' = [rq EXCEPT !.phase = "done", !.result = "Error"]
    /\ UNCHANGED nonRetry

\* send_request_retryable fails and gives the request back (nothing of it
\* was written): ClientError::Canceled, handled by RetryableSendRequest::poll
SendCanceled ==
    /\ rq.phase = "sent"
    /\ IF ShouldRetry(rq.retry, rq.reused)
       THEN /\ rq.sends < MaxSends
            /\ rq' = SendRequest([rq EXCEPT !.uri = "absolute"])
       ELSE rq' = [rq EXCEPT !.phase = "done", !.result = "Canceled"]
    /\ UNCHANGED nonRetry

RetryNext ==
    \/ Request
    \/ \E reused \in BOOLEAN : RaceWon(reused)
    \/ RaceFailed
    \/ Responded
    \/ SendFailed
    \/ SendCanceled

\* ============================================ proto::h1: the dispatcher
\* One Dispatcher (src/src/proto/h1/dispatch.rs) over one Conn.  The Conn
\* (proto::h1::conn) is known here by the methods the dispatcher calls; its
\* state is reading, writing, keep_alive and notify_read.  A poll of the
\* dispatcher is a sequence of steps: every pass of the loops of poll_read
\* and poll_write is one step, poll_flush with the check that ends an
\* iteration is one step.  What the transport, the peer and the user's
\* futures answer when they are polled is chosen at the step that polls
\* them.

\* for _ in 0..16, in poll_loop
LoopLimit == 16

Roles == {"server", "client"}

NoDispatcher ==
    [role |-> "none", reading |-> "Init", writing |-> "Init", keep_alive |-> "Busy",
     notify_read |-> FALSE, body_tx |-> FALSE, rx_alive |-> FALSE, body_rx |-> FALSE,
     is_closing |-> FALSE, in_flight |-> "none", svc |-> "ready", unanswered |-> 0,
     callback |-> "none", queue |-> "empty", sent |-> "none", wrote |-> FALSE, fwd |-> FALSE,
     should_shutdown |-> TRUE, status_sent |-> FALSE,
     phase |-> "parked", pc |-> "read", iters |-> 0, error |-> "none", result |-> "none"]

\* ------------------------------------------------------------------ Conn
\* T::should_read_first()
ShouldReadFirst(d) == d.role = "server"

CanReadHead(d) == d.reading = "Init" /\ (ShouldReadFirst(d) \/ d.writing # "Init")
CanReadBody(d) == d.reading = "Body"
CanWriteHead(d) == d.writing = "Init" /\ (ShouldReadFirst(d) \/ d.reading # "Closed")
CanWriteBody(d) == d.writing = "Body"
IsReadClosed(d) == d.reading = "Closed"
IsWriteClosed(d) == d.writing = "Closed"

\* State::close_read, State::close_write, State::close
CloseRead(d) == [d EXCEPT !.reading = "Closed", !.keep_alive = "Disabled"]
CloseWrite(d) == [d EXCEPT !.writing = "Closed", !.keep_alive = "Disabled"]
CloseConn(d) == CloseWrite(CloseRead(d))

\* State::busy: a message has started
Busy(d) == IF d.keep_alive = "Disabled" THEN d ELSE [d EXCEPT !.keep_alive = "Busy"]

\* The keep-alive decision: once both halves are done with the exchange the
\* connection goes back to Init/Init when keep-alive is still on (a server
\* then wants to read again, for a pipelined request), and closes when it
\* was disabled; a half that closed closes the other once that is done.
\* (mutant: the connection is reused although keep-alive was disabled)
TryKeepAlive_Reuse(d) ==
    IF d.reading = "KeepAlive" /\ d.writing = "KeepAlive"
    THEN [d EXCEPT !.reading = "Init", !.writing = "Init", !.notify_read = ShouldReadFirst(d)]
    ELSE d
TryKeepAlive(d) ==
    IF d.reading = "KeepAlive" /\ d.writing = "KeepAlive"
    THEN IF d.keep_alive = "Busy"
         THEN [d EXCEPT !.reading = "Init", !.writing = "Init", !.keep_alive = "Idle",
                        !.notify_read = ShouldReadFirst(d)]
         ELSE CloseConn(d)
    ELSE IF \/ (d.reading = "Closed" /\ d.writing = "KeepAlive")
            \/ (d.reading = "KeepAlive" /\ d.writing = "Closed")
         THEN CloseConn(d)
         ELSE d

\* Conn::disable_keep_alive: an idle connection closes at once
ConnDisableKeepAlive(d) ==
    IF d.keep_alive = "Idle" THEN CloseConn(d) ELSE [d EXCEPT !.keep_alive = "Disabled"]

\* the end of an outgoing message: writing after the head of a message
\* without a body, after write_full_msg, and after end_body
EndWrite(d) == [d EXCEPT !.writing = IF d.keep_alive = "Disabled" THEN "Closed" ELSE "KeepAlive"]

\* Conn::wants_read_again
WantsReadAgain(d) == d.notify_read

\* -------------------------------------------------------------- Dispatch
\* Server::should_poll: in_flight.is_some(); Client::should_poll:
\* callback.is_none()
ShouldPoll(d) == IF d.role = "server" THEN d.in_flight # "none" ELSE d.callback = "none"

\* Server::poll_ready and Client::poll_ready: "ready", "pending" or "err"
\* (mutant: a service that is not ready is taken to be ready)
DispatchPollReady_NoServiceCheck(d) ==
    IF d.role = "server"
    THEN IF d.in_flight # "none" THEN "pending"
         ELSE IF d.svc = "closed" THEN "err" ELSE "ready"
    ELSE IF d.callback = "some" THEN "ready" ELSE "err"
DispatchPollReady(d) ==
    IF d.role = "server"
    THEN IF d.in_flight # "none" THEN "pending"
         ELSE IF d.svc = "closed" THEN "err" ELSE d.svc
    ELSE IF d.callback = "some" THEN "ready" ELSE "err"

\* recv_msg with Ok((head, body)): "ok", or "err" when it is the client's
\* and no callback waits for a response (Error::new_unexpected_message)
RecvMsgOkResult(d) ==
    IF d.role = "client" /\ d.callback = "none" THEN "err" ELSE "ok"

\* Server::recv_msg and Client::recv_msg with Ok((head, body)): the server
\* calls the service and keeps the future, the client answers the callback
RecvMsgOk(d) ==
    IF d.role = "server"
    THEN [d EXCEPT !.in_flight = "pending", !.unanswered = @ + 1]
    ELSE [d EXCEPT !.callback = "none",
                   !.sent = IF d.callback = "some" THEN "response" ELSE @]

\* recv_msg with Err(err): "ok" when the error was given to the user, "err"
\* when it is returned.  The client gives it to the request in flight, or
\* closes the queue and cancels the request that waits there.
RecvMsgErrResult(d) ==
    IF d.role = "server" THEN "err"
    ELSE IF d.callback # "none" \/ d.queue \in {"queued", "canceled"} THEN "ok" ELSE "err"

\* (mutant: the request that waits in the queue is dropped with the queue)
RecvMsgErr_DropQueued(d) ==
    IF d.role = "server" THEN d
    ELSE IF d.callback # "none"
         THEN [d EXCEPT !.callback = "none", !.sent = IF d.callback = "some" THEN "error" ELSE @]
         ELSE [d EXCEPT !.queue = "closed"]
RecvMsgErr(d) ==
    IF d.role = "server" THEN d
    ELSE IF d.callback # "none"
         THEN [d EXCEPT !.callback = "none", !.sent = IF d.callback = "some" THEN "error" ELSE @]
         ELSE [d EXCEPT !.queue = "closed", !.sent = IF d.queue = "queued" THEN "canceled" ELSE @]

\* ------------------------------------------------------------ Dispatcher
\* What the poll answers for the Dispatched value ds: Dispatcher::poll
\* (poll_catch with should_shutdown) answers it, poll_without_shutdown
\* answers Ok(()) for either
Dispatched(d, ds) == IF d.should_shutdown THEN ds ELSE "Ok"

\* Dispatcher::poll_catch on an error of poll_inner: the error is given to
\* dispatch.recv_msg and the future completes; nothing of the Conn is closed
PollCatch(d, e) ==
    [RecvMsgErr(d) EXCEPT !.phase = "done", !.error = e,
                          !.result = IF RecvMsgErrResult(d) = "ok"
                                     THEN Dispatched(d, "Shutdown") ELSE "Err"]

\* Dispatcher::close
DispatcherClose(d) == CloseConn([d EXCEPT !.is_closing = TRUE])

\* Dispatcher::is_done
IsDone(d) ==
    IF d.is_closing THEN TRUE
    ELSE IF ~ShouldReadFirst(d) /\ IsReadClosed(d) THEN TRUE
    ELSE IsReadClosed(d) /\ (IsWriteClosed(d) \/ (~ShouldPoll(d) /\ ~d.body_rx))

Running(d) == d.phase \in {"loop", "tail"}

\* what conn.poll_read_head may answer: nothing yet, a head without a body,
\* a head with a body, a head that asks for Connection: close, a head that
\* does not parse, the end of the stream
HeadAnswers == {"pending", "zero", "body", "close", "bad", "eof"}
\* what the body sender and conn.poll_read_body may answer: the channel is
\* full, nothing yet, a chunk, the chunk that ends the body, the end, an error
BodyAnswers == {"full", "pending", "chunk", "last", "eof", "err"}
\* the message of poll_msg: the body's full data is known, the body is at its
\* end, the body is a stream
BodyKinds == {"full", "empty", "stream"}
\* what the user's body answers to poll_data
DataAnswers == {"pending", "chunk", "last", "end", "err"}

\* The head that conn.poll_read_head parsed: the read half after it
HeadRead(d, h) ==
    LET b == Busy(d)
    IN  IF h = "body" THEN [b EXCEPT !.reading = "Body", !.body_tx = TRUE, !.rx_alive = TRUE]
        ELSE IF h = "close" THEN [b EXCEPT !.reading = "KeepAlive", !.keep_alive = "Disabled"]
        ELSE [b EXCEPT !.reading = "KeepAlive"]

\* The way to a new head: poll_read asks conn.can_read_head(), and
\* poll_read_head asks dispatch.poll_ready before it reads.  "no" when the
\* Conn cannot read a head, else the answer of poll_ready.
\* (mutant: a head is read whatever the Conn and the dispatch say)
HeadGate_Open(d) == "ready"
\* (mutant: poll_read does not ask conn.can_read_head())
HeadGate_AnyReading(d) == DispatchPollReady(d)
HeadGate(d) == IF CanReadHead(d) THEN DispatchPollReady(d) ELSE "no"

\* conn.poll_read_head meets a head that does not parse: a server that has
\* not started a response writes a best-effort status response; then the
\* Conn closes
ConnReadHeadError(d) ==
    IF d.role = "server" /\ d.writing = "Init"
    THEN CloseConn([d EXCEPT !.status_sent = TRUE])
    ELSE CloseConn(d)

\* Dispatcher::poll_read_head
PollReadHead(d, h) ==
    IF HeadGate(d) = "pending" THEN [d EXCEPT !.pc = "write"]
    ELSE IF HeadGate(d) = "err" THEN [DispatcherClose(d) EXCEPT !.pc = "write"]
    ELSE IF h = "pending" THEN [d EXCEPT !.pc = "write"]
    ELSE IF h = "eof" THEN CloseRead(d)
    ELSE IF h = "bad"
         THEN IF RecvMsgErrResult(ConnReadHeadError(d)) = "ok"
              THEN RecvMsgErr(ConnReadHeadError(d))
              ELSE PollCatch(ConnReadHeadError(d), "parse")
    ELSE IF RecvMsgOkResult(HeadRead(d, h)) = "err"
         THEN PollCatch(HeadRead(d, h), "unexpected")
    ELSE RecvMsgOk(HeadRead(d, h))

\* poll_read finds the receiver of the body gone (body.poll_ready or
\* body.send_data answers Err): the sender is dropped, and the read half is
\* closed when the body is not at its end
\* (mutant: the dispatcher goes on reading)
ReceiverGone_KeepsReading(d) == [d EXCEPT !.body_tx = FALSE]
ReceiverGone(d) == [(IF CanReadBody(d) THEN CloseRead(d) ELSE d) EXCEPT !.body_tx = FALSE]

\* Dispatcher::poll_read, one pass of its loop
PollRead(h, b, raced) ==
    /\ Running(dp) /\ dp.pc = "read"
    /\ dp' =
        IF dp.is_closing THEN [dp EXCEPT !.pc = "write"]
        ELSE IF HeadGate(dp) # "no" THEN PollReadHead(dp, h)
        ELSE IF dp.body_tx
        THEN IF ~CanReadBody(dp) THEN [dp EXCEPT !.body_tx = FALSE]
             ELSE IF ~dp.rx_alive
                  THEN [ReceiverGone(dp) EXCEPT !.pc = "write"]
             ELSE IF b \in {"full", "pending"} THEN [dp EXCEPT !.pc = "write"]
             ELSE IF b = "eof" THEN [dp EXCEPT !.reading = "KeepAlive", !.body_tx = FALSE]
             ELSE IF b = "err" THEN [CloseRead(dp) EXCEPT !.body_tx = FALSE]
             ELSE LET r == IF b = "last" THEN [dp EXCEPT !.reading = "KeepAlive"] ELSE dp
                  IN  IF ~raced THEN [r EXCEPT !.fwd = ~@]
                      ELSE [ReceiverGone(r) EXCEPT !.rx_alive = FALSE]
        ELSE \* conn.poll_read_keep_alive
             IF h \in {"bad"} /\ ~IsReadClosed(dp) THEN PollCatch(CloseConn(dp), "io")
             ELSE IF h = "eof" /\ ~IsReadClosed(dp) THEN [CloseRead(dp) EXCEPT !.pc = "write"]
             ELSE [dp EXCEPT !.pc = "write"]
    /\ UNCHANGED nonDispatch

\* the head of a message goes out (write_head or write_full_msg); a head
\* with Connection: close disables keep-alive
WriteHead(d, kind, close) ==
    LET k == IF close THEN [d EXCEPT !.keep_alive = "Disabled"] ELSE d
    IN  IF kind = "stream" THEN [k EXCEPT !.writing = "Body", !.body_rx = TRUE]
        ELSE EndWrite(k)

\* dispatch.poll_msg and what poll_write does with the message
\* (mutant: the server does not wait for the future to resolve)
PollMsg_NoWait(d, kind, close) ==
    IF d.in_flight = "failed" THEN PollCatch(d, "service")
    ELSE LET w == WriteHead([d EXCEPT !.in_flight = "none", !.unanswered = @ - 1], kind, close)
         IN  IF kind = "full" THEN [w EXCEPT !.pc = "flush"] ELSE w
PollMsg(d, kind, close) ==
    IF d.role = "server"
    THEN IF d.in_flight = "pending" THEN [d EXCEPT !.pc = "flush"]
         ELSE IF d.in_flight = "failed" THEN PollCatch(d, "service")
         ELSE LET w == WriteHead([d EXCEPT !.in_flight = "none", !.unanswered = @ - 1], kind, close)
              IN  IF kind = "full" THEN [w EXCEPT !.pc = "flush"] ELSE w
    ELSE IF d.queue = "empty" THEN [d EXCEPT !.pc = "flush"]
         ELSE IF d.queue = "queued"
         THEN LET w == WriteHead([d EXCEPT !.queue = "empty", !.callback = "some", !.wrote = TRUE],
                                 kind, close)
              IN  IF kind = "full" THEN [w EXCEPT !.pc = "flush"] ELSE w
         ELSE [DispatcherClose([d EXCEPT !.queue = IF @ = "canceled" THEN "empty" ELSE @])
                    EXCEPT !.pc = "flush"]

\* Dispatcher::poll_write, one pass of its loop; full: the write buffer
\* cannot take more (can_buffer_body is false) and its flush is io; the
\* flush is Dispatcher::poll_flush, and conn.poll_flush commits the
\* keep-alive decision when it is done
PollWrite(kind, close, data, full, io) ==
    /\ Running(dp) /\ dp.pc = "write"
    /\ dp' =
        IF dp.is_closing THEN [dp EXCEPT !.pc = "flush"]
        ELSE IF ~dp.body_rx /\ CanWriteHead(dp) /\ ShouldPoll(dp) THEN PollMsg(dp, kind, close)
        ELSE IF full
        THEN IF io = "err" THEN PollCatch(CloseConn(dp), "io")
             ELSE IF io = "pending" THEN [dp EXCEPT !.pc = "flush"]
             ELSE TryKeepAlive(dp)
        ELSE IF dp.body_rx
        THEN IF ~CanWriteBody(dp) THEN [dp EXCEPT !.body_rx = FALSE]
             ELSE IF data = "pending" THEN [dp EXCEPT !.pc = "flush"]
             ELSE IF data = "chunk" THEN dp
             ELSE IF data = "err" THEN PollCatch([dp EXCEPT !.body_rx = FALSE], "body")
             ELSE EndWrite([dp EXCEPT !.body_rx = FALSE])
        ELSE [dp EXCEPT !.pc = "flush"]
    /\ dp' # dp
    /\ UNCHANGED nonDispatch

\* Dispatcher::poll_flush (conn.poll_flush commits the keep-alive decision
\* when the flush is done), and the end of the iteration: poll_loop goes
\* round while the Conn wants to read again and yields after LoopLimit
\* iterations; when it returns Ready, the loop of poll_inner goes round while
\* the Conn wants to read again; then is_done decides.
\* The end of poll_inner when is_done holds: up is that conn.pending_upgrade
\* is Some, sd what conn.poll_shutdown answers, te that conn.take_error is
\* an Err.  An upgrade is answered without the shutdown; the shutdown is
\* awaited only by a poll with should_shutdown; an Err of either goes to
\* poll_catch.
ShutdownAnswers == {"ok", "pending", "err"}
Finish(d, up, sd, te) ==
    IF up THEN IF te THEN PollCatch(d, "deferred")
               ELSE [d EXCEPT !.phase = "done", !.result = Dispatched(d, "Upgrade")]
    ELSE IF d.should_shutdown /\ sd = "pending" THEN [d EXCEPT !.phase = "parked"]
    ELSE IF d.should_shutdown /\ sd = "err" THEN PollCatch(d, "shutdown")
    ELSE IF te THEN PollCatch(d, "deferred")
    ELSE [d EXCEPT !.phase = "done", !.result = Dispatched(d, "Shutdown")]

AfterFlush(d, up, sd, te) ==
    LET n == [d EXCEPT !.notify_read = FALSE, !.iters = @ + 1, !.pc = "read"]
    IN  IF d.phase = "loop"
        THEN IF ~WantsReadAgain(d) THEN [n EXCEPT !.phase = "tail"]
             ELSE IF n.iters < LoopLimit THEN n
             ELSE [n EXCEPT !.phase = "parked"]
        ELSE IF WantsReadAgain(d) THEN n
             ELSE IF IsDone(d) THEN Finish(n, up, sd, te)
             ELSE [n EXCEPT !.phase = "parked"]

PollFlush(io, up, sd, te) ==
    /\ Running(dp) /\ dp.pc = "flush"
    /\ dp.iters < MaxIters
    /\ dp' = IF io = "err" THEN PollCatch(CloseConn(dp), "io")
             ELSE IF io = "ok" THEN AfterFlush(TryKeepAlive(dp), up, sd, te)
             ELSE AfterFlush(dp, up, sd, te)
    /\ UNCHANGED nonDispatch

\* the task is polled: Dispatcher::poll (poll_catch with should_shutdown) or
\* poll_without_shutdown, then poll_inner, poll_loop
Wake(should_shutdown) ==
    /\ dp.role # "none" /\ dp.phase = "parked"
    /\ dp' = [dp EXCEPT !.phase = "loop", !.pc = "read", !.iters = 0,
                        !.should_shutdown = should_shutdown]
    /\ UNCHANGED nonDispatch

\* ------------------------------------------- the dispatcher's environment
Alive(d) == d.role # "none" /\ d.phase \notin {"done", "dropped"}

\* the future of Service::call resolves
Resolve(ok) ==
    /\ Alive(dp) /\ dp.in_flight = "pending"
    /\ dp' = [dp EXCEPT !.in_flight = IF ok THEN "ready" ELSE "failed"]
    /\ UNCHANGED nonDispatch

\* what Service::poll_ready answers changes
ServiceReadiness(s) ==
    /\ Alive(dp) /\ dp.role = "server" /\ dp.svc # "closed" /\ dp.svc # s
    /\ dp' = [dp EXCEPT !.svc = s]
    /\ UNCHANGED nonDispatch

\* the user drops the receiver of the incoming body
DropReceiver ==
    /\ Alive(dp) /\ dp.rx_alive
    /\ dp' = [dp EXCEPT !.rx_alive = FALSE]
    /\ UNCHANGED nonDispatch

\* Dispatcher::disable_keep_alive, called between two polls
DisableKeepAlive ==
    /\ Alive(dp) /\ dp.phase = "parked" /\ dp.keep_alive # "Disabled"
    /\ dp' = ConnDisableKeepAlive(dp)
    /\ UNCHANGED nonDispatch

\* the client's user sends a request on the channel: the channel takes one
\* when the dispatcher has asked for it, with no request in flight
Submit ==
    /\ Alive(dp) /\ dp.role = "client" /\ dp.queue = "empty" /\ dp.callback = "none"
    /\ dp' = [dp EXCEPT !.queue = "queued", !.sent = "none", !.wrote = FALSE]
    /\ UNCHANGED nonDispatch

\* the client's user drops the response future of its request
Cancel ==
    /\ Alive(dp) /\ dp.role = "client"
    /\ \/ dp.queue = "queued" /\ dp' = [dp EXCEPT !.queue = "canceled"]
       \/ dp.callback = "some" /\ dp' = [dp EXCEPT !.callback = "canceled"]
    /\ UNCHANGED nonDispatch

\* the client's user drops the sender of the channel
DropSender ==
    /\ Alive(dp) /\ dp.role = "client" /\ dp.queue = "empty"
    /\ dp' = [dp EXCEPT !.queue = "closed"]
    /\ UNCHANGED nonDispatch

\* the executor drops the task of the dispatcher between two polls (it is
\* the future that Client::send_request gives to executor.execute): the
\* Dispatcher is dropped with its Conn and its Dispatch, and Client has no
\* Drop that would answer the callback it holds
DropDispatcher ==
    /\ Alive(dp) /\ dp.phase = "parked"
    /\ dp' = [dp EXCEPT !.phase = "dropped"]
    /\ UNCHANGED nonDispatch

DispatchNext ==
    \/ \E should_shutdown \in BOOLEAN : Wake(should_shutdown)
    \/ \E h \in HeadAnswers, b \in BodyAnswers, raced \in BOOLEAN : PollRead(h, b, raced)
    \/ \E kind \in BodyKinds, close \in BOOLEAN, data \in DataAnswers, full \in BOOLEAN,
          io \in {"ok", "pending", "err"} : PollWrite(kind, close, data, full, io)
    \/ \E io \in {"ok", "pending", "err"}, up \in BOOLEAN, sd \in ShutdownAnswers, te \in BOOLEAN :
          PollFlush(io, up, sd, te)
    \/ \E ok \in BOOLEAN : Resolve(ok)
    \/ \E s \in {"ready", "pending", "closed"} : ServiceReadiness(s)
    \/ DropReceiver
    \/ DisableKeepAlive
    \/ Submit
    \/ Cancel
    \/ DropSender
    \/ DropDispatcher

\* Dispatcher::new over a fresh Conn, keep-alive on or off by configuration
Dispatchers ==
    {[NoDispatcher EXCEPT !.role = r, !.keep_alive = k] : r \in Roles, k \in {"Busy", "Disabled"}}


\* ------------------------------------------------------ Server::run_until
\* The Server inside run_until.  phase is the place in run_until: "serving"
\* is the first reactor.run (the shutdown signal selected with the incoming
\* connections), "waiting" the second (WaitUntilZero selected with the
\* Timeout), "returned" after it.  active and blocker are the fields of
\* Info; backlog is the connections that the listener can accept at once;
\* accepted counts the connections that for_each was given; woken is that
\* the reactor will poll the second future; timer is the Timeout.
NoServer ==
    [phase |-> "none", no_proto |-> FALSE, signal |-> "pending", backlog |-> 0,
     active |-> 0, accepted |-> 0, blocker |-> FALSE, woken |-> FALSE,
     timer |-> "none", result |-> "none"]

Servers == {[NoServer EXCEPT !.phase = "serving", !.no_proto = n] : n \in BOOLEAN}

\* the listener exists and is polled: only inside the first reactor.run
Bound(s) == s.phase = "serving"

\* NotifyService::drop
\* (mutant: the blocked task is not notified)
DropService_NoNotify(s) == [s EXCEPT !.active = @ - 1]
DropService(s) ==
    IF s.active - 1 = 0 /\ s.blocker
    THEN [s EXCEPT !.active = 0, !.blocker = FALSE, !.woken = TRUE]
    ELSE [s EXCEPT !.active = @ - 1]

\* WaitUntilZero::poll: TRUE is Ready
WaitUntilZero(s) == s.active = 0

\* the closure of for_each for n connections in a row: a NotifyService
\* each, and active + 1 each
Accept(s, n) ==
    [s EXCEPT !.active = @ + n, !.accepted = @ + n, !.backlog = @ - n]

\* a peer connects to the listener
Arrive ==
    /\ Bound(sv) /\ sv.backlog < MaxBacklog /\ sv.accepted + sv.backlog < MaxAccepts
    /\ sv' = [sv EXCEPT !.backlog = @ + 1]
    /\ UNCHANGED nonServer

\* the future given as shutdown_signal is ready to resolve
Signal ==
    /\ sv.phase = "serving" /\ sv.signal = "pending"
    /\ sv' = [sv EXCEPT !.signal = "ready"]
    /\ UNCHANGED nonServer

\* one poll of shutdown_signal.select(srv): the signal first, and when it
\* resolves the first reactor.run returns, the listener is dropped, and the
\* Timeout and WaitUntilZero are made; made is that Timeout::new answers
\* Ok: on its Err run_until returns the error at once (try!)
PollSignal(made) ==
    /\ sv.phase = "serving" /\ sv.signal = "ready"
    /\ sv' = IF made
             THEN [sv EXCEPT !.phase = "waiting", !.signal = "resolved", !.backlog = 0,
                             !.timer = "armed", !.woken = TRUE]
             ELSE [sv EXCEPT !.phase = "returned", !.signal = "resolved", !.backlog = 0,
                             !.result = "Err"]
    /\ UNCHANGED nonServer

\* else the incoming connections: for_each takes all that the listener has;
\* when new_service fails for the n-th of them run_until returns the error.
PollIncoming(n, fails) ==
    /\ Bound(sv) /\ sv.signal # "ready" /\ sv.backlog > 0
    /\ n \in 1..sv.backlog
    /\ sv' = IF fails
             THEN [Accept(sv, n - 1) EXCEPT !.phase = "returned", !.result = "Err", !.backlog = 0]
             ELSE Accept(sv, sv.backlog)
    /\ UNCHANGED nonServer

\* a connection is done and its NotifyService is dropped
ConnectionDone ==
    /\ sv.phase \in {"serving", "waiting"} /\ sv.active > 0
    /\ sv' = DropService(sv)
    /\ UNCHANGED nonServer

\* the Timeout of shutdown_timeout elapses
TimerFires ==
    /\ sv.phase = "waiting" /\ sv.timer = "armed"
    /\ sv' = [sv EXCEPT !.timer = "fired", !.woken = TRUE]
    /\ UNCHANGED nonServer

\* one poll of wait.select(timeout): WaitUntilZero first, which keeps the
\* task as blocker when connections are active, then the Timeout; terr is
\* that the Timeout answers an Err, which run_until returns
PollWait(terr) ==
    /\ sv.phase = "waiting" /\ sv.woken
    /\ sv' = IF WaitUntilZero(sv)
             THEN [sv EXCEPT !.phase = "returned", !.result = "Ok", !.woken = FALSE]
             ELSE IF terr
             THEN [sv EXCEPT !.blocker = TRUE, !.phase = "returned", !.result = "Err",
                             !.woken = FALSE]
             ELSE IF sv.timer = "fired"
             THEN [sv EXCEPT !.blocker = TRUE, !.phase = "returned", !.result = "Ok",
                             !.woken = FALSE]
             ELSE [sv EXCEPT !.blocker = TRUE, !.woken = FALSE]
    /\ UNCHANGED nonServer

ServerNext ==
    \/ Arrive
    \/ Signal
    \/ \E made \in BOOLEAN : PollSignal(made)
    \/ \E n \in 1..MaxBacklog, fails \in BOOLEAN : PollIncoming(n, fails)
    \/ ConnectionDone
    \/ TimerFires
    \/ \E terr \in BOOLEAN : PollWait(terr)

\* ===================================================== http: HttpReader
\* A byte is a name: the hex digits as they are written, "SP", ";", "CR",
\* "LF", and letters that are no hex digits.  A stream is a sequence of bytes.
HexVal ==
    [b \in {"0", "1", "2", "3", "4", "5", "6", "7", "8", "9"} |->
        CASE b = "0" -> 0 [] b = "1" -> 1 [] b = "2" -> 2 [] b = "3" -> 3 [] b = "4" -> 4
          [] b = "5" -> 5 [] b = "6" -> 6 [] b = "7" -> 7 [] b = "8" -> 8 [] b = "9" -> 9]
    @@ [b \in {"a", "b", "c", "d", "e", "f"} |->
        CASE b = "a" -> 10 [] b = "b" -> 11 [] b = "c" -> 12 [] b = "d" -> 13
          [] b = "e" -> 14 [] b = "f" -> 15]
    @@ [b \in {"A", "B", "C", "D", "E", "F"} |->
        CASE b = "A" -> 10 [] b = "B" -> 11 [] b = "C" -> 12 [] b = "D" -> 13
          [] b = "E" -> 14 [] b = "F" -> 15]
IsHexDigit(b) == b \in DOMAIN HexVal

\* A u64 is its 16 hexadecimal digits, the most significant first.
U64Digits == 16
U64Zero == [i \in 1..U64Digits |-> 0]
IsZero(x) == \A i \in 1..U64Digits : x[i] = 0
\* size *= radix; size += d, with the wrap of the u64
MulAdd(x, d) == [i \in 1..U64Digits |-> IF i = U64Digits THEN d ELSE x[i + 1]]
\* the multiplication overflows the u64
MulOverflows(x) == x[1] # 0
\* x - n, for x >= n: n times x - 1
RECURSIVE Sub(_, _)
Sub(x, n) ==
    IF n = 0 THEN x
    ELSE LET last == CHOOSE i \in 1..U64Digits : x[i] # 0 /\ \A j \in (i + 1)..U64Digits : x[j] = 0
             dec == [i \in 1..U64Digits |->
                        IF i < last THEN x[i] ELSE IF i = last THEN x[i] - 1 ELSE 15]
         IN  Sub(dec, n - 1)
\* min(x as usize, n) for a small n
MinWith(x, n) ==
    IF \E i \in 1..(U64Digits - 1) : x[i] # 0 THEN n
    ELSE IF x[U64Digits] < n THEN x[U64Digits] ELSE n

Min(a, b) == IF a < b THEN a ELSE b
DropN(s, n) == SubSeq(s, n + 1, Len(s))
TakeN(s, n) == SubSeq(s, 1, n)

\* read_chunk_size on the bytes w that the stream holds (closed: the peer
\* has closed behind them; checks: the build traps arithmetic overflow).
\* The answer: st is "ok" with the size, "err" (InvalidInput), "eof"
\* (EndOfFile), "panic", or "block" when the bytes run out on an open
\* stream; used is the number of bytes taken from the stream.  The bytes of
\* the extension are passed over (todo! writes a line of the log).
RECURSIVE ChunkSizeLoop(_, _, _, _, _, _, _)
ChunkSizeLoop(w, closed, checks, size, in_ext, in_chunk_size, used) ==
    IF used >= Len(w)
    THEN [st |-> IF closed THEN "eof" ELSE "block", size |-> size, used |-> used]
    ELSE LET b == w[used + 1]
         IN  IF IsHexDigit(b) /\ in_chunk_size
             THEN IF MulOverflows(size) /\ checks
                  THEN [st |-> "panic", size |-> size, used |-> used + 1]
                  ELSE ChunkSizeLoop(w, closed, checks, MulAdd(size, HexVal[b]),
                                     in_ext, in_chunk_size, used + 1)
             ELSE IF b = "CR"
             THEN IF used + 1 >= Len(w)
                  THEN [st |-> IF closed THEN "eof" ELSE "block", size |-> size, used |-> used + 1]
                  ELSE IF w[used + 2] = "LF"
                       THEN [st |-> "ok", size |-> size, used |-> used + 2]
                       ELSE [st |-> "err", size |-> size, used |-> used + 2]
             ELSE IF b = ";" /\ ~in_ext
             THEN ChunkSizeLoop(w, closed, checks, size, TRUE, FALSE, used + 1)
             ELSE IF b \in {"TAB", "SP"} /\ ~in_ext /\ ~in_chunk_size
             THEN ChunkSizeLoop(w, closed, checks, size, in_ext, in_chunk_size, used + 1)
             ELSE IF b \in {"TAB", "SP"} /\ in_chunk_size
             THEN ChunkSizeLoop(w, closed, checks, size, in_ext, FALSE, used + 1)
             ELSE IF in_ext
             THEN ChunkSizeLoop(w, closed, checks, size, in_ext, in_chunk_size, used + 1)
             ELSE [st |-> "err", size |-> size, used |-> used + 1]

ReadChunkSize(w, closed, checks) == ChunkSizeLoop(w, closed, checks, U64Zero, FALSE, TRUE, 0)

\* eat(body, LINE_ENDING) on the bytes w: "ok", "err", "eof" or "block"
Eat(w, closed) ==
    IF Len(w) = 0 THEN (IF closed THEN "eof" ELSE "block")
    ELSE IF w[1] # "CR" THEN "err"
    ELSE IF Len(w) = 1 THEN (IF closed THEN "eof" ELSE "block")
    ELSE IF w[2] # "LF" THEN "err"
    ELSE "ok"
EatUsed(w) == IF Len(w) >= 1 /\ w[1] # "CR" THEN 1 ELSE Min(Len(w), 2)

\* ----------------------------------------------------- HttpReader::read
\* The head of a request is its method, its Content-Length (cl: no such
\* header, one that parses to len, one that does not) and its
\* Transfer-Encoding (te: none, chunked, another).

NoReader ==
    [phase |-> "none", checks |-> FALSE, method |-> "Get", cl |-> "absent", te |-> "absent",
     len |-> 0, kind |-> "none", remaining |-> 0, opt |-> <<>>, wire |-> <<>>,
     closed |-> FALSE, out |-> <<>>, res |-> "none", chunks |-> <<>>, framed |-> TRUE,
     last |-> FALSE, line |-> <<>>, line_st |-> "none"]

\* Request::new: the reader of the body.  headers.has::<ContentLength>() is
\* true for a header that does not parse, and headers.get() is None for it.
\* (mutant: a request without Content-Length and Transfer-Encoding is read
\* as chunked)
BodyReader_ChunkedByDefault(m, cl, te) ==
    IF m \in {"Get", "Head"} THEN "Empty"
    ELSE IF cl = "valid" THEN "Sized"
    ELSE IF cl = "invalid" THEN "panic"
    ELSE "Chunked"
BodyReader(m, cl, te) ==
    IF m \in {"Get", "Head"} THEN "Empty"
    ELSE IF cl # "absent" THEN (IF cl = "valid" THEN "Sized" ELSE "panic")
    ELSE IF te # "absent" THEN "Chunked"
    ELSE "Empty"

\* the answer of a read, and the bytes it took from the stream
Answer(r, st, used) == [r EXCEPT !.res = st, !.wire = DropN(@, used)]
Deliver(r, used, k) ==
    [r EXCEPT !.res = "ok", !.out = Append(@, SubSeq(r.wire, used + 1, used + k))]

\* the arm of SizedReader: body.read(buf) gives k bytes
SizedRead(r, n, k) ==
    IF r.remaining = 0 THEN Answer(r, "eof", 0)
    ELSE IF Len(r.wire) = 0 THEN Answer(r, IF r.closed THEN "eof" ELSE "block", 0)
    ELSE LET num == Min(k, Min(n, Len(r.wire)))
         IN  [Answer(Deliver(r, 0, num), "ok", num)
                EXCEPT !.remaining = IF num > r.remaining THEN 0 ELSE r.remaining - num]

\* the arm of ChunkedReader after the size of the chunk is known: used bytes
\* of the stream went to read_chunk_size
\* (mutant: the line ending after the data of a chunk is left on the stream)
ChunkedData_NoEat(r, n, k, rem, used) ==
    IF IsZero(rem) THEN [Answer(r, "eof", used) EXCEPT !.opt = U64Zero]
    ELSE LET to_read == MinWith(rem, n)
             avail == Len(r.wire) - used
             count == Min(k, Min(to_read, avail))
             left == Sub(rem, count)
         IN  IF avail = 0 THEN Answer(r, IF r.closed THEN "eof" ELSE "block", used)
             ELSE [Answer(Deliver(r, used, count), "ok", used + count)
                     EXCEPT !.opt = IF ~IsZero(left) THEN left ELSE <<>>]
ChunkedData(r, n, k, rem, used) ==
    IF IsZero(rem) THEN [Answer(r, "eof", used) EXCEPT !.opt = U64Zero]
    ELSE LET to_read == MinWith(rem, n)
             avail == Len(r.wire) - used
             count == Min(k, Min(to_read, avail))
             left == Sub(rem, count)
             after == DropN(r.wire, used + count)
         IN  IF avail = 0 THEN Answer(r, IF r.closed THEN "eof" ELSE "block", used)
             ELSE IF ~IsZero(left)
             THEN [Answer(Deliver(r, used, count), "ok", used + count) EXCEPT !.opt = left]
             ELSE IF Eat(after, r.closed) = "ok"
             THEN [Answer(Deliver(r, used, count), "ok", used + count + 2) EXCEPT !.opt = <<>>]
             ELSE IF Eat(after, r.closed) = "block" THEN Answer(r, "block", 0)
             ELSE Answer(r, Eat(after, r.closed), used + count + EatUsed(after))

\* the arm of ChunkedReader
ChunkedRead(r, n, k) ==
    IF r.opt # <<>> THEN ChunkedData(r, n, k, r.opt, 0)
    ELSE LET cs == ReadChunkSize(r.wire, r.closed, r.checks)
             seen == [r EXCEPT !.line = TakeN(r.wire, cs.used), !.line_st = cs.st]
         IN  IF cs.st = "block" THEN Answer(r, "block", 0)
             ELSE IF cs.st # "ok" THEN Answer(seen, cs.st, cs.used)
             ELSE LET d == ChunkedData(seen, n, k, cs.size, cs.used)
                  IN  IF d.res = "block" THEN Answer(r, "block", 0) ELSE d

\* HttpReader::read with a buffer of n bytes
HttpReaderRead(r, n, k) ==
    IF r.kind = "Sized" THEN SizedRead(r, n, k)
    ELSE IF r.kind = "Chunked" THEN ChunkedRead(r, n, k)
    ELSE Answer(r, "eof", 0)

\* ------------------------------------------- the reader and its peer
RECURSIVE Flat(_)
Flat(ss) == IF ss = <<>> THEN <<>> ELSE Head(ss) \o Flat(Tail(ss))

\* the buffers of the handler's reads, the lengths of Content-Length
Lens == 0..MaxLen
\* the body that the peer sends in chunks when the body is chunked
Body == <<"q", "w", "e", "r", "t">>

\* {:X}
RECURSIVE ToHex(_)
ToHex(n) ==
    LET UpperHex == <<"0", "1", "2", "3", "4", "5", "6", "7", "8", "9", "A", "B", "C", "D", "E", "F">>
    IN  IF n < 16 THEN <<UpperHex[n + 1]>> ELSE ToHex(n \div 16) \o <<UpperHex[(n % 16) + 1]>>
LineEnding == <<"CR", "LF">>

\* size lines for a chunk of n bytes that the grammar allows
GoodLines(n) ==
    {ToHex(n), <<"0">> \o ToHex(n), ToHex(n) \o <<"SP">>, ToHex(n) \o <<";", "q">>,
     ToHex(n) \o <<"SP", ";", "SP", "1">>}
\* and size lines that it does not allow: a byte that is no hex digit,
\* garbage after the size, more than 16 hex digits (the last of them
\* going beyond the u64)
BadLines(n) ==
    {<<"g">>, ToHex(n) \o <<"g">>, ToHex(n) \o <<"SP", "1">>,
     [i \in 1..U64Digits |-> "0"] \o ToHex(n),
     <<"1">> \o [i \in 1..U64Digits |-> "0"]}

\* Request::new
NewRequest(m, cl, te, n) ==
    /\ rd.phase = "head"
    /\ rd' = [rd EXCEPT !.phase = IF BodyReader(m, cl, te) = "panic" THEN "panic" ELSE "body",
                        !.method = m, !.cl = cl, !.te = te,
                        !.len = IF cl = "valid" THEN n ELSE 0,
                        !.kind = BodyReader(m, cl, te),
                        !.remaining = IF cl = "valid" THEN n ELSE 0]
    /\ UNCHANGED nonReader

\* the peer sends a byte after the head of a request whose body is not
\* chunked
SendByte(b) ==
    /\ rd.phase = "body" /\ rd.kind # "Chunked" /\ ~rd.closed /\ Len(rd.wire) < MaxWire
    /\ rd' = [rd EXCEPT !.wire = Append(@, b), !.framed = FALSE]
    /\ UNCHANGED nonReader

\* the data of the next chunk when it has n bytes
NextData(r, n) == SubSeq(Body, Len(Flat(r.chunks)) + 1, Len(Flat(r.chunks)) + n)

\* the peer sends the next n bytes of the body as a chunk: a size line, the
\* data, a line ending
SendChunk(line, n) ==
    /\ rd.phase = "body" /\ rd.kind = "Chunked" /\ ~rd.closed /\ ~rd.last
    /\ rd.wire = <<>> /\ Len(rd.chunks) < MaxChunks
    /\ Len(Flat(rd.chunks)) + n <= Len(Body)
    /\ rd' = [rd EXCEPT !.wire = line \o LineEnding \o NextData(rd, n) \o LineEnding,
                        !.chunks = Append(@, NextData(rd, n)),
                        !.framed = @ /\ line \in GoodLines(n),
                        !.line = <<>>, !.line_st = "none"]
    /\ UNCHANGED nonReader

\* the peer sends the last chunk
SendLast(line) ==
    /\ rd.phase = "body" /\ rd.kind = "Chunked" /\ ~rd.closed /\ ~rd.last
    /\ rd.wire = <<>>
    /\ rd' = [rd EXCEPT !.wire = line \o LineEnding \o LineEnding, !.last = TRUE,
                        !.framed = @ /\ line \in GoodLines(0),
                        !.line = <<>>, !.line_st = "none"]
    /\ UNCHANGED nonReader

\* the peer closes the stream
PeerClose ==
    /\ rd.phase = "body" /\ ~rd.closed
    /\ rd' = [rd EXCEPT !.closed = TRUE]
    /\ UNCHANGED nonReader

\* the handler reads the body into a buffer of n bytes; the stream gives
\* k bytes to a read
Read(n, k) ==
    /\ rd.phase = "body" /\ rd.res \notin {"err", "panic"}
    /\ HttpReaderRead(rd, n, k).res # "block"
    /\ rd' = LET r == HttpReaderRead(rd, n, k)
             IN  IF r.res = "panic" THEN [r EXCEPT !.phase = "panic"] ELSE r
    /\ UNCHANGED nonReader

ReaderNext ==
    \/ \E m \in {"Get", "Head", "Post"}, cl \in {"absent", "valid", "invalid"},
          te \in {"absent", "chunked", "other"}, n \in Lens : NewRequest(m, cl, te, n)
    \/ \E b \in {"q", "CR"} : SendByte(b)
    \/ \E n \in 1..MaxLen : \E l \in GoodLines(n) \cup BadLines(n) : SendChunk(l, n)
    \/ \E l \in GoodLines(0) \cup BadLines(0) : SendLast(l)
    \/ PeerClose
    \/ \E n \in 1..MaxLen, k \in 1..MaxLen : Read(n, k)

\* ===================================================== http: HttpWriter
\* A writer is its kind, what remains of its length, the bytes that it has
\* passed to the stream, and the answer of the last write.
Passes(w, bytes, res) == [w EXCEPT !.wire = @ \o bytes, !.res = res]

\* the arm of ChunkedWriter
\* (mutant: the line ending after the data is not written)
ChunkedWrite_NoLineEnding(w, msg) == Passes(w, ToHex(Len(msg)) \o LineEnding \o msg, "ok")
ChunkedWrite(w, msg) == Passes(w, ToHex(Len(msg)) \o LineEnding \o msg \o LineEnding, "ok")

\* the arm of SizedWriter
\* (mutant: the length is counted but not enforced)
SizedWrite_Unbounded(w, msg) ==
    [Passes(w, msg, "ok") EXCEPT !.remaining = IF Len(msg) > @ THEN 0 ELSE @ - Len(msg)]
SizedWrite(w, msg) ==
    IF Len(msg) > w.remaining
    THEN [Passes(w, TakeN(msg, w.remaining), "short") EXCEPT !.remaining = 0]
    ELSE [Passes(w, msg, "ok") EXCEPT !.remaining = @ - Len(msg)]

\* HttpWriter::write
HttpWriterWrite(w, msg) ==
    IF w.kind = "Through" THEN Passes(w, msg, "ok")
    ELSE IF w.kind = "Chunked" THEN ChunkedWrite(w, msg)
    ELSE IF w.kind = "Sized" THEN SizedWrite(w, msg)
    ELSE Passes(w, <<>>, IF Len(msg) = 0 THEN "ok" ELSE "short")

\* HttpWriter::end, and the end of Response::drop: a write of no bytes
HttpWriterEnd(w) == HttpWriterWrite(w, <<>>)

\* ------------------------------------------------------ server Response
\* state is the type of the Response (Fresh, Streaming), "finished" when
\* it is consumed or dropped, or "deconstructed" when deconstruct has given
\* its parts to the caller; cl is the Content-Length that the handler has
\* set (-1: none); kind and remaining are the HttpWriter that the Response
\* holds, n the length a SizedWriter was made with, base the length of the
\* wire when the writer was made; writes counts the writes of the handler,
\* empties those of no bytes to a streaming chunked Response; how is the way
\* it finished; framed is that the Response was constructed over a writer
\* that frames a body; constructs counts the calls of construct.
NoResponse ==
    [state |-> "none", cl |-> -1, kind |-> "Through", remaining |-> 0, n |-> 0, base |-> 0,
     wire |-> <<>>, res |-> "none", writes |-> 0, empties |-> 0, how |-> "none",
     framed |-> FALSE, constructs |-> 0, broken |-> FALSE]

\* the first write of write_head: the version, as HttpVersion::Http11 shows
VersionBytes == <<"H", "T", "T", "P", "/", "1", ".", "1">>

\* The stream calls of write_head through a ThroughWriter, one for each
\* piece of its three write!s: the status line is the version, a space,
\* the status, CR and LF; then the headers, whose Display is taken as one
\* piece, and the line ending.
StatusLine == <<VersionBytes, <<" ">>, <<"STATUS">>, <<"CR">>, <<"LF">>>>
HeadPieces == StatusLine \o <<<<"HEADERS">>, LineEnding>>

\* The stream calls of one write through a ChunkedWriter: the size, the
\* line ending, the message, the line ending
ChunkCalls(msg) == <<ToHex(Len(msg)), LineEnding, msg, LineEnding>>

RECURSIVE Concat(_)
Concat(ss) == IF ss = <<>> THEN <<>> ELSE Head(ss) \o Concat(Tail(ss))

\* What the stream answers to the calls of one write_head: it takes them
\* all, or it fails one after `calls` of them have passed; with `part` the
\* call that fails is one of the writes of a piece that the model takes as
\* one, and the writes of the piece before it have passed.  Through a
\* ThroughWriter that piece is the headers, through a ChunkedWriter it is
\* what follows the chunk of the version.  A SizedWriter makes one call, for
\* the cut version, and then answers the short write.
HeadIo == [fails : BOOLEAN, calls : 0..Len(HeadPieces), part : BOOLEAN]
HeadIos(w) ==
    {[fails |-> FALSE, calls |-> 0, part |-> FALSE]}
    \cup IF w.kind = "Sized" THEN {[fails |-> TRUE, calls |-> 0, part |-> FALSE]}
         ELSE IF w.kind = "Through"
         THEN {[fails |-> TRUE, calls |-> k, part |-> FALSE] : k \in 0..(Len(HeadPieces) - 1)}
              \cup {[fails |-> TRUE, calls |-> Len(StatusLine), part |-> TRUE]}
         ELSE {[fails |-> TRUE, calls |-> k, part |-> FALSE] : k \in 0..Len(ChunkCalls(VersionBytes))}
              \cup {[fails |-> TRUE, calls |-> Len(ChunkCalls(VersionBytes)), part |-> TRUE]}

\* The writes of write_head (write! to self.body) through the HttpWriter
\* that the Response holds.  A ThroughWriter passes them as they are: a
\* head that passed whole is one "HEAD" on the wire, a head that the stream
\* cut is the pieces that passed.  A ChunkedWriter frames every write as a
\* chunk: the version is the first, and "REST" stands for the chunks of the
\* writes that follow it, "REST_PART" for those of them that passed.  A
\* SizedWriter cuts the write that does not fit, counts it, passes it to
\* the stream and answers the short write, which ends write_head with the
\* Err; the lengths of the model are all shorter than the version, so that
\* is the first write.  When the stream fails the call, nothing passes and
\* the Err is the stream's.  broken records that the stream has failed a
\* call of the writer.
HeadThrough(w, io) ==
    IF w.kind = "Sized"
    THEN IF io.fails
         THEN [HttpWriterWrite(w, VersionBytes) EXCEPT !.wire = w.wire, !.res = "err",
                                                       !.broken = TRUE]
         ELSE HttpWriterWrite(w, VersionBytes)
    ELSE IF w.kind = "Through"
    THEN IF io.fails
         THEN [Passes(w, Concat(TakeN(HeadPieces, io.calls))
                            \o (IF io.part THEN <<"HEADERS_PART">> ELSE <<>>), "err")
                 EXCEPT !.broken = TRUE]
         ELSE Passes(w, <<"HEAD">>, "ok")
    ELSE IF io.fails
         THEN [Passes(w, Concat(TakeN(ChunkCalls(VersionBytes), io.calls))
                            \o (IF io.part THEN <<"REST_PART">> ELSE <<>>), "err")
                 EXCEPT !.broken = TRUE]
         ELSE Passes(ChunkedWrite(w, VersionBytes), <<"REST">>, "ok")

\* write_head answered an Err: of the stream, or the short write
HeadFailed(h) == h.res \in {"short", "err"}

\* Response::write_head and the writer that start and drop make of its
\* answer over the stream
ResponseWriteHead(w, io) ==
    LET h == HeadThrough(w, io)
    IN  IF HeadFailed(h) THEN h
        ELSE [h EXCEPT !.kind = IF w.cl >= 0 THEN "Sized" ELSE "Chunked",
                       !.remaining = IF w.cl >= 0 THEN w.cl ELSE 0,
                       !.n = IF w.cl >= 0 THEN w.cl ELSE 0,
                       !.base = Len(h.wire)]

\* Response::drop: a Fresh Response writes its head and ends the writer it
\* makes, or returns when write_head fails
ResponseDrop(w, io) ==
    IF w.state = "Fresh"
    THEN IF HeadFailed(ResponseWriteHead(w, io)) THEN ResponseWriteHead(w, io)
         ELSE HttpWriterEnd(ResponseWriteHead(w, io))
    ELSE HttpWriterEnd(w)

Finished(w, how) == [w EXCEPT !.state = "finished", !.how = how]

\* the messages that a handler writes
Msgs == {<<>>, <<"q">>, <<"w", "e">>}

\* Response::send: Content-Length is set, then start, write_all and end;
\* when start fails the Fresh Response is dropped with the Err (io2 is
\* what the stream answers to the write_head of Drop)
ResSend(body, io, io2) ==
    /\ wr.state = "Fresh" /\ io \in HeadIos(wr) /\ io2 \in HeadIos(wr)
    /\ LET h == ResponseWriteHead([wr EXCEPT !.cl = Len(body)], io)
       IN  wr' = IF HeadFailed(h)
                 THEN Finished(ResponseDrop(h, io2), "send failed")
                 ELSE Finished(HttpWriterEnd(HttpWriterWrite(h, body)), "send")
    /\ UNCHANGED nonWriter

\* Response::start; when write_head fails (try!) the Fresh Response is
\* dropped: Drop calls write_head once more, and io2 is what the stream
\* answers then
ResStart(io, io2) ==
    /\ wr.state = "Fresh" /\ io \in HeadIos(wr) /\ io2 \in HeadIos(wr)
    /\ LET h == ResponseWriteHead(wr, io)
       IN  wr' = IF HeadFailed(h)
                 THEN Finished(ResponseDrop(h, io2), "start failed")
                 ELSE [h EXCEPT !.state = "Streaming"]
    /\ UNCHANGED nonWriter

\* Write for Response<Streaming>
ResWrite(msg) ==
    /\ wr.state = "Streaming" /\ wr.writes < MaxWrites
    /\ wr' = [HttpWriterWrite(wr, msg) EXCEPT
                !.writes = @ + 1,
                !.empties = IF msg = <<>> /\ wr.kind = "Chunked" THEN @ + 1 ELSE @]
    /\ UNCHANGED nonWriter

\* Response::end
ResEnd ==
    /\ wr.state = "Streaming"
    /\ wr' = Finished(HttpWriterEnd(wr), "end")
    /\ UNCHANGED nonWriter

\* the Response goes out of scope
ResDrop(io) ==
    /\ wr.state \in {"Fresh", "Streaming"} /\ io \in HeadIos(wr)
    /\ wr' = Finished(ResponseDrop(wr, io), IF wr.state = "Fresh" THEN "fresh drop" ELSE "drop")
    /\ UNCHANGED nonWriter

\* Response::deconstruct by the caller: the Response is forgotten, so Drop
\* does not run and nothing is written; the caller holds the HttpWriter
ResDeconstruct ==
    /\ wr.state \in {"Fresh", "Streaming"}
    /\ wr' = [wr EXCEPT !.state = "deconstructed", !.how = "deconstruct"]
    /\ UNCHANGED nonWriter

\* Response::construct from the parts that deconstruct gave, with the
\* headers that the caller passes (c is their Content-Length, -1 for none):
\* a Fresh Response over the writer of the parts, whatever its kind.  The
\* code has no bound on the calls, the model stops at MaxConstructs.
ResConstruct(c) ==
    /\ wr.state = "deconstructed" /\ wr.constructs < MaxConstructs
    /\ wr' = [wr EXCEPT !.state = "Fresh", !.cl = c, !.how = "none",
                        !.framed = @ \/ wr.kind # "Through", !.constructs = @ + 1]
    /\ UNCHANGED nonWriter

WriterNext ==
    \/ \E b \in Msgs, io \in HeadIo, io2 \in HeadIo : ResSend(b, io, io2)
    \/ \E io \in HeadIo, io2 \in HeadIo : ResStart(io, io2)
    \/ \E m \in Msgs : ResWrite(m)
    \/ ResEnd
    \/ \E io \in HeadIo : ResDrop(io)
    \/ ResDeconstruct
    \/ \E c \in {-1} \cup Lens : ResConstruct(c)

\* ==================================================== the specifications
Init ==
    /\ PoolInit /\ rq = NoRequest /\ dp = NoDispatcher /\ sv = NoServer
    /\ rd = NoReader /\ wr = NoResponse
Next == PoolNext
Spec == Init /\ [][Next]_vars

\* The dispatcher on its own.
DispatchInit ==
    /\ PoolInit
    /\ enabled /\ timeout.some /\ ver = "Http1"
    /\ rq = NoRequest /\ sv = NoServer /\ rd = NoReader /\ wr = NoResponse
    /\ dp \in Dispatchers
SpecDispatch == DispatchInit /\ [][DispatchNext]_vars

\* The server's run_until on its own.
ServerInit ==
    /\ PoolInit
    /\ enabled /\ timeout.some /\ ver = "Http1"
    /\ rq = NoRequest /\ dp = NoDispatcher
    /\ sv \in Servers /\ rd = NoReader /\ wr = NoResponse
SpecServer == ServerInit /\ [][ServerNext]_vars

\* A server Request and the reads of its body on their own: the server
\* waits for the head; the build traps arithmetic overflow (checks) or lets
\* it wrap.
ReaderInit ==
    /\ PoolInit
    /\ enabled /\ timeout.some /\ ver = "Http1"
    /\ rq = NoRequest /\ dp = NoDispatcher /\ sv = NoServer /\ wr = NoResponse
    /\ rd \in {[NoReader EXCEPT !.phase = "head", !.checks = c] : c \in BOOLEAN}
SpecReader == ReaderInit /\ [][ReaderNext]_vars

\* A server Response on its own.
WriterInit ==
    /\ PoolInit
    /\ enabled /\ timeout.some /\ ver = "Http1"
    /\ rq = NoRequest /\ dp = NoDispatcher /\ sv = NoServer /\ rd = NoReader
    /\ wr \in {[NoResponse EXCEPT !.state = "Fresh", !.cl = c] : c \in {-1} \cup Lens}
SpecWriter == WriterInit /\ [][WriterNext]_vars

\* The client's request on its own, over a pool that is left alone.
RetryInit ==
    /\ PoolInit
    /\ ver = "Http1"
    /\ rq \in Requests
    /\ dp = NoDispatcher /\ sv = NoServer /\ rd = NoReader /\ wr = NoResponse
SpecRetry == RetryInit /\ [][RetryNext]_vars

\* ========================================================== claims: pool
\* The steps of the pool, told by what they change.
Handles(ph, c) == ph[c].fresh + ph[c].reused
DropStep(c) == Handles(pooledH', c) < Handles(pooledH, c)
PooledStep(c) == conn[c].st = "connecting" /\ conn'[c].st # "connecting" /\ Handles(pooledH', c) > 0
FailStep(c) == conn[c].st = "connecting" /\ conn'[c].st = "failed"
TakeStep(i) == ck[i].st = "unused" /\ ck'[i].st # "unused"
ParkedPollStep(i) == ck[i].st = "parked" /\ ck'[i].st \in {"done", "failed"}
LiveHandles(k) == {c \in ConnIds : conn[c].st = "connecting" /\ conn[c].key = k}
InIdle(idl, k, c) == \E n \in 1..Len(idl[k]) : idl[k][n].conn = c
Stale(e) == conn[e.conn].closed \/ (timeout.some /\ e.idle_for > timeout.dur)
\* the waiters of key k whose receiver is alive after the step
RECURSIVE LiveAfter(_, _)
LiveAfter(q, cks) ==
    IF q = <<>> THEN <<>>
    ELSE IF cks[Head(q)].st = "parked" THEN <<Head(q)>> \o LiveAfter(Tail(q), cks)
    ELSE LiveAfter(Tail(q), cks)

\* C1: while the pool lives, an HTTP/2 key has at most one live Connecting
\* handle, and while it has one Pool::connecting returns None for the key.
C1_OneConnecting ==
    poolAlive =>
        \A k \in AllKeys : IsH2(k) =>
            /\ Cardinality(LiveHandles(k)) <= 1
            /\ (LiveHandles(k) # {} => ~ConnectingGrants(k))
C1_Witness ==
    \E k \in AllKeys : IsH2(k) /\ poolAlive /\ LiveHandles(k) # {} /\ NextConn # 0
                       /\ \E c \in ConnIds : conn[c].st \in {"failed", "open", "gone"}

\* C2: a value with a Unique reservation has at most one owner: the Pooled
\* handles, the idle lists and the waiters' channels hold it at most once.
Owners(c) ==
    Handles(pooledH, c)
    + Cardinality({<<k, n>> \in AllKeys \X (1..MaxObjs) : n <= Len(idle[k]) /\ idle[k][n].conn = c})
    + Cardinality({i \in CkIds : ck[i].st = "parked" /\ ck[i].val = c})
C2_UniqueOwner ==
    \A c \in ConnIds : (conn[c].st = "open" /\ ~IsShared(c)) => Owners(c) <= 1
C2_Witness ==
    \E c \in ConnIds : conn[c].st = "open" /\ ~IsShared(c) /\ pooledH[c].reused = 1
                       /\ \E i \in CkIds : ck[i].st = "done" /\ ck[i].val = c

\* What take(key) finds in the state a step leads to.
TakeAfter(key) == Pop(idle'[key], conn', timeout')

\* C3 as stated: a non-closed value returned to an enabled pool for key k
\* while nothing is parked on k is what the very next checkout(k) resolves
\* with.
C3_AsStated ==
    [][\A c \in ConnIds :
        (DropStep(c) /\ ~IsClosed(c) /\ poolAlive /\ enabled /\ parked[conn[c].key] = <<>>)
            => TakeAfter(conn[c].key).found = c]_vars

\* C3 amended: the same, when the key is HTTP/1 or has no idle entry at the
\* return; and a first poll resolves with the most recently stored entry of
\* the key whenever that entry is neither closed nor expired.
C3_ReturnedIsNext ==
    [][/\ \A c \in ConnIds :
            (DropStep(c) /\ ~IsClosed(c) /\ poolAlive /\ enabled /\ parked[conn[c].key] = <<>>
                /\ (~IsH2(conn[c].key) \/ idle[conn[c].key] = <<>>))
            => TakeAfter(conn[c].key).found = c
       /\ \A i \in CkIds :
            (TakeStep(i) /\ idle[ck'[i].key] # <<>> /\ ~Stale(idle[ck'[i].key][Len(idle[ck'[i].key])]))
            => (ck'[i].st = "done" /\ ck'[i].val = idle[ck'[i].key][Len(idle[ck'[i].key])].conn)]_vars
\* two values were returned, the later one is what a checkout finds
C3_Witness ==
    \E c \in ConnIds, k \in AllKeys :
        /\ enabled /\ timeout.some /\ poolAlive /\ parked[k] = <<>> /\ NextCk # 0
        /\ conn[c].st = "open" /\ conn[c].key = k /\ ~IsClosed(c) /\ Handles(pooledH, c) = 0
        /\ Len(idle[k]) = 2 /\ idle[k][2] = [conn |-> c, idle_for |-> 0]
        /\ ~Stale(idle[k][1]) /\ Take(k).found = c

\* C4: a checkout never resolves with an idle entry that is closed or has
\* been idle longer than the timeout, and a first poll that finds only such
\* entries for the key takes none of them: the checkout is not resolved
\* and goes on to park.
C4_NoStale ==
    [][\A i \in CkIds : TakeStep(i) =>
        LET list == idle[ck'[i].key] IN
        /\ ck'[i].st = "done" =>
              \E n \in 1..Len(list) : list[n].conn = ck'[i].val /\ ~Stale(list[n])
        /\ (\A n \in 1..Len(list) : Stale(list[n])) => ck'[i].st = "polling"]_vars
C4_Witness ==
    \E i \in CkIds, c \in ConnIds :
        /\ ck[i].st = "parked" /\ ck[i].val = 0 /\ idle[ck[i].key] = <<>>
        /\ conn[c].st = "open" /\ conn[c].key = ck[i].key /\ Handles(pooledH, c) > 0
        /\ IsShared(c) /\ ~IsClosed(c) /\ timeout.some /\ enabled

\* C5 as stated: a value inserted for a key with parked checkouts is handed
\* to the earliest-parked checkout that is not cancelled, and that checkout
\* resolves with it.
C5_Handed(c, k) ==
    LiveAfter(parked[k], ck') # <<>> => ck'[Head(LiveAfter(parked[k], ck'))].val = c
C5_AsStated ==
    [][/\ \A c \in ConnIds :
            /\ (DropStep(c) /\ ~IsClosed(c) /\ poolAlive) => C5_Handed(c, conn[c].key)
            /\ (PooledStep(c) /\ IsShared(c)) => C5_Handed(c, conn[c].key)
       /\ \A i \in CkIds :
            (ParkedPollStep(i) /\ ck[i].val # 0) => (ck'[i].st = "done" /\ ck'[i].val = ck[i].val)]_vars

\* C5 amended: in an enabled pool, for a key that is not an HTTP/2 key with
\* an idle entry, the value is handed to the earliest-parked checkout that
\* is not cancelled; that checkout's next poll resolves with the value if
\* it is still not closed, and fails (Canceled) if it closed.
C5_HandedToFirstWaiter ==
    [][/\ \A c \in ConnIds :
            /\ (DropStep(c) /\ ~IsClosed(c) /\ poolAlive /\ enabled /\ conn[c].key \notin idleKeys)
                    => C5_Handed(c, conn[c].key)
            /\ (DropStep(c) /\ ~IsClosed(c) /\ poolAlive /\ enabled /\ ~IsH2(conn[c].key))
                    => C5_Handed(c, conn[c].key)
            /\ (PooledStep(c) /\ IsShared(c) /\ enabled /\ conn[c].key \notin idleKeys)
                    => C5_Handed(c, conn[c].key)
       /\ \A i \in CkIds :
            (ParkedPollStep(i) /\ ck[i].val # 0) =>
                IF IsClosed(ck[i].val) THEN ck'[i].st = "failed"
                ELSE ck'[i].st = "done" /\ ck'[i].val = ck[i].val]_vars
\* the value went past a canceled waiter to the one parked behind it
C5_Witness ==
    \E i, j \in CkIds : i < j /\ ck[i].st = "rxdropped" /\ ck[j].st = "parked" /\ ck[j].val # 0
        /\ ck[i].key = ck[j].key /\ enabled /\ idle[ck[j].key] = <<>>
        /\ parked[ck[j].key] = <<>> /\ ~IsH2(ck[j].key) /\ ~IsClosed(ck[j].val)

\* C6 as stated: dropping a Pooled re-inserts its value (into the idle list
\* or a waiter's channel) if and only if the value is not closed.
C6_Inserted(c) ==
    \/ idle' # idle
    \/ \E i \in CkIds : ck[i].st = "parked" /\ ck[i].val = 0 /\ ck'[i].val = c
C6_AsStated ==
    [][\A c \in ConnIds : DropStep(c) => (C6_Inserted(c) <=> ~IsClosed(c))]_vars

\* C6 amended: ... if and only if the value is not closed, the pool is alive
\* and enabled, and an HTTP/2 key has no idle entry yet.
C6_DropReinserts ==
    [][\A c \in ConnIds : DropStep(c) =>
        /\ C6_Inserted(c) <=> (~IsClosed(c) /\ poolAlive /\ enabled
                                /\ ~(IsH2(conn[c].key) /\ idle[conn[c].key] # <<>>))
        /\ IsClosed(c) => (idle' = idle /\ parked' = parked /\ ck' = ck)]_vars
C6_Witness ==
    \E c \in ConnIds : conn[c].st = "open" /\ Handles(pooledH, c) = 0 /\ ~IsClosed(c)
        /\ InIdle(idle, conn[c].key, c) /\ ~IsShared(c)

\* C7: inserting a closed value changes nothing: not the idle map and not
\* the parked waiters, on a Pooled drop and on a connect completed by pooled().
C7_ClosedInsertIsNoOp ==
    [][\A c \in ConnIds :
        ((DropStep(c) /\ IsClosed(c)) \/ (PooledStep(c) /\ conn'[c].closed))
            => (idle' = idle /\ \A i \in CkIds : ck'[i].val = ck[i].val)]_vars

\* C8 as stated: when the connect of a key fails, exactly one request gets
\* the connect error (the one that owns the Connecting handle), and every
\* checkout parked on the key completes with Canceled.
C8_Canceled(k) ==
    \A i \in CkIds : (ck[i].st = "parked" /\ ck[i].key = k /\ i \in SeqSet(parked[k]))
        => (i \notin SeqSet(parked'[k]) /\ ck'[i].st = "parked" /\ ck'[i].val = 0)
C8_AsStated ==
    [][\A c \in ConnIds : FailStep(c) =>
        /\ \A d \in ConnIds \ {c} : conn'[d] = conn[d]
        /\ C8_Canceled(conn[c].key)]_vars

\* C8 amended: ... every checkout parked on an HTTP/2 key completes with
\* Canceled: its sender is dropped, and its next poll fails.  The waiters of
\* an HTTP/1 key stay parked.
C8_ConnectFailCancels ==
    [][/\ \A c \in ConnIds : FailStep(c) =>
            /\ \A d \in ConnIds \ {c} : conn'[d] = conn[d]
            /\ ck' = ck
            /\ IF IsH2(conn[c].key) /\ poolAlive THEN C8_Canceled(conn[c].key) ELSE parked' = parked
       /\ \A i \in CkIds :
            (ck[i].st = "parked" /\ ck[i].val = 0 /\ i \notin SeqSet(parked[ck[i].key])
                /\ ck'[i] # ck[i]) => ck'[i].st \in {"failed", "rxdropped"}]_vars
C8_Witness ==
    \E i \in CkIds, c \in ConnIds : ck[i].st = "failed" /\ IsH2(ck[i].key) /\ conn[c].st = "failed"
        /\ \A d \in ConnIds : conn[d].st \in {"failed", "unused"}

\* ======================================================== claims: client
\* C9: a request canceled on a reused connection with retry on is sent
\* again exactly once: no request is retried more than once, that is,
\* send_request is called at most twice for it.
C9_RetriedOnce == rq.sends <= 2

\* C10: a cancellation on a fresh connection, or with
\* retry_canceled_requests off, is returned to the caller as Canceled and
\* the request is not sent again.
C10_NoRetry ==
    [][(rq.phase = "sent" /\ (~rq.reused \/ ~rq.retry))
        => (rq'.sends = rq.sends /\ rq'.phase \in {"sent", "done"})]_vars
C10_Witness ==
    rq.result = "Canceled" /\ rq.retry /\ ~rq.reused /\ rq.sends = 2 /\ rq.phase = "done"

\* ==================================================== claims: dispatcher
\* the steps of the dispatcher, told by what they change
CallStep == dp'.unanswered > dp.unanswered
HeadWrittenStep == dp'.unanswered < dp.unanswered
ErrorStep == dp.error = "none" /\ dp'.error # "none"

\* C11: on a server connection Service::call is invoked only while no future
\* of an earlier call is held: never while one is still unresolved.
C11_CallsAreSerial ==
    [][(dp.role = "server" /\ CallStep) => dp.in_flight = "none"]_vars
C11_Witness ==
    dp.role = "server" /\ dp.in_flight = "pending" /\ dp.keep_alive = "Busy"
    /\ dp.reading = "KeepAlive" /\ dp.writing = "Init" /\ Running(dp) /\ dp.pc = "read"
    /\ dp.iters > 0

\* C12: a response head is written only for a request that was delivered to
\* the service and whose future has resolved, and at most one delivered
\* request is without its response head at any time, so the heads go out in
\* the order in which the requests were read.
C12_ResponsesInOrder ==
    /\ [](dp.unanswered \in {0, 1})
    /\ [][(dp.role = "server" /\ HeadWrittenStep)
            => (dp.in_flight = "ready" /\ dp.unanswered = 1 /\ dp'.in_flight = "none")]_vars
C12_Witness ==
    dp.role = "server" /\ dp.in_flight = "ready" /\ dp.unanswered = 1 /\ dp.iters >= 2
    /\ dp.keep_alive = "Busy" /\ Running(dp) /\ dp.pc = "write" /\ ~dp.body_rx

\* C13: the service is invoked for a request only when no response body is
\* being written (the response before it is fully emitted: writing is back
\* at Init and the dispatcher holds no body) and reading is at Init.
C13_NextAfterBody ==
    [][(dp.role = "server" /\ CallStep)
        => (dp.reading = "Init" /\ dp.writing = "Init" /\ ~dp.body_rx)]_vars
C13_Witness ==
    dp.role = "server" /\ dp.body_rx /\ dp.writing = "Body" /\ dp.reading = "KeepAlive"
    /\ dp.in_flight = "none" /\ dp.svc = "ready" /\ Running(dp) /\ dp.pc = "read"

\* C14: a wake of the dispatcher goes through at most 16 iterations of
\* read, write, flush.
C14_BoundedIterations == dp.iters <= LoopLimit

\* C15: after an error of the user's service or of the user's outgoing body
\* was propagated to the dispatcher, the reading and the writing half are
\* both Closed once the dispatcher has seen its last poll.
C15_ErrorCloses ==
    (dp.phase = "done" /\ dp.error \in {"service", "body"})
        => (IsReadClosed(dp) /\ IsWriteClosed(dp))

\* the request that waits in the queue leaves it without having been written
UnsentLeavesQueue ==
    dp.queue \in {"queued", "canceled"} /\ dp'.queue \notin {"queued", "canceled"} /\ ~dp'.wrote

\* C16 as stated: a queued request that has not begun writing when it is
\* cancelled or when the connection fails has none of its bytes written and
\* completes with Canceled, which carries the request back.
C16_AsStated ==
    [][(dp.queue \in {"queued", "canceled"} /\ dp'.queue \notin {"queued", "canceled"})
        => (dp'.wrote \/ dp'.sent = "canceled")]_vars
    
\* C16 amended: when the connection fails, a queued request that its caller
\* still waits for has none of its bytes written and completes with Canceled
\* carrying the request; a queued request that its caller has cancelled is
\* dropped with none of its bytes written, nothing is sent for it, and the
\* dispatcher closes the connection when it meets it in poll_msg.
C16_UnsentIsCanceled ==
    [][/\ (UnsentLeavesQueue /\ dp.queue = "queued") => (dp'.sent = "canceled" /\ dp'.phase = "done")
       /\ (UnsentLeavesQueue /\ dp.queue = "canceled")
            => (dp'.sent = dp.sent /\ (dp'.is_closing \/ dp'.phase = "done"))
       /\ (dp.queue = "canceled" /\ dp'.queue # "canceled") => ~dp'.wrote]_vars
C16_Witness ==
    dp.role = "client" /\ dp.sent = "canceled" /\ ~dp.wrote /\ dp.phase = "done"
    /\ dp.result = "Shutdown" /\ dp.queue = "closed" /\ dp.callback = "none"

\* C17: when the receiver of the incoming body is gone before the body is
\* read to its end, the pass of poll_read that meets it closes the read half
\* and drops the sender, and no chunk is forwarded without a receiver.
C17_DroppedReceiverClosesRead ==
    [][/\ (dp.body_tx /\ ~dp'.body_tx /\ CanReadBody(dp) /\ ~dp'.rx_alive /\ dp'.error = "none"
            /\ dp'.reading # "KeepAlive")
            => (IsReadClosed(dp') /\ dp'.fwd = dp.fwd)
       /\ (dp'.fwd # dp.fwd) => (dp.rx_alive /\ dp'.rx_alive /\ dp.body_tx)
       /\ (Running(dp) /\ dp.pc = "read" /\ ~dp.is_closing /\ dp.body_tx /\ CanReadBody(dp)
            /\ ~dp.rx_alive /\ dp'.pc # dp.pc)
            => (IsReadClosed(dp') /\ ~dp'.body_tx)]_vars
C17_Witness ==
    dp.role = "server" /\ dp.body_tx /\ ~dp.rx_alive /\ CanReadBody(dp) /\ dp.fwd
    /\ Running(dp) /\ dp.pc = "read" /\ ~dp.is_closing /\ dp.in_flight = "pending"

\* C18: while Service::poll_ready answers Pending, no request head is read:
\* the read half stays at Init and the service is not called.
C18_NotReadyNoHead ==
    [][(dp.role = "server" /\ dp.svc = "pending" /\ dp'.svc = "pending")
        => (~CallStep /\ (dp.reading = "Init" => dp'.reading \in {"Init", "Closed"}))]_vars
C18_Witness ==
    dp.role = "server" /\ dp.svc = "pending" /\ dp.reading = "Init" /\ dp.in_flight = "none"
    /\ dp.keep_alive = "Idle" /\ Running(dp) /\ dp.pc = "write" /\ ~dp.is_closing

\* C19: keep-alive, once disabled, stays disabled; the connection then takes
\* no request after the exchange it is in (reading does not go back to Init),
\* and when both halves are done with that exchange they leave that state
\* only to be Closed, and stay Closed.
C19_DisabledCloses ==
    [][dp.keep_alive = "Disabled" =>
        /\ dp'.keep_alive = "Disabled"
        /\ (dp.reading # "Init" => dp'.reading # "Init")
        /\ (dp.reading # "Init" => ~CallStep)
        /\ (dp.reading = "KeepAlive" /\ dp.writing = "KeepAlive")
              => (dp'.reading \in {"KeepAlive", "Closed"} /\ dp'.writing \in {"KeepAlive", "Closed"})
        /\ (IsReadClosed(dp) /\ IsWriteClosed(dp)) => (IsReadClosed(dp') /\ IsWriteClosed(dp'))]_vars
C19_Witness ==
    dp.role = "server" /\ dp.keep_alive = "Disabled" /\ IsReadClosed(dp) /\ IsWriteClosed(dp)
    /\ dp.phase = "done" /\ dp.result = "Shutdown" /\ dp.error = "none" /\ ~dp.is_closing
    /\ dp.in_flight = "none" /\ dp.unanswered = 0 /\ dp.svc = "ready"

\* ======================================================= claims: server
\* C20: once the shutdown signal has resolved no connection is accepted; the
\* wait for the connections is polled as soon as the active count is zero
\* or the timeout has elapsed, and that poll returns from run_until, which
\* does not return Ok from the wait for any other reason (it returns an
\* Err when the Timeout cannot be made or answers one).
C20_GracefulShutdown ==
    /\ [][sv.signal = "resolved" => (sv'.accepted = sv.accepted /\ sv'.active <= sv.active
                                      /\ sv'.signal = "resolved" /\ sv'.backlog = 0)]_vars
    /\ []((sv.phase = "waiting" /\ (sv.active = 0 \/ sv.timer = "fired")) => sv.woken)
    /\ [][(sv.phase = "waiting" /\ sv'.phase # "waiting")
            => (sv'.phase = "returned" /\ sv'.result \in {"Ok", "Err"}
                /\ (sv'.result = "Ok" => (sv.active = 0 \/ sv.timer = "fired"))
                /\ (sv.active = 0 => sv'.result = "Ok"))]_vars
    /\ [][(sv.phase = "waiting" /\ sv.woken /\ ~sv'.woken /\ (sv.active = 0 \/ sv.timer = "fired"))
            => sv'.phase = "returned"]_vars
C20_Witness ==
    sv.phase = "returned" /\ sv.result = "Ok" /\ sv.signal = "resolved" /\ sv.active = 0
    /\ sv.timer = "armed" /\ sv.accepted >= 2 /\ ~sv.blocker

\* ========================================================= claims: http
\* C21: whatever bytes the peer sends, the reader of a request's body never
\* panics: neither when it is made from the head nor in a read.
C21_NoPanic == rd.phase # "panic"

\* C22: a body framed by Content-Length: N delivers no more than N bytes to
\* the handler, and exactly N when the reader says that the body is over
\* and the peer has not closed before the end; the bytes that follow the
\* body on the stream are not delivered.
C22_ExactlyN ==
    rd.kind = "Sized" =>
        /\ Len(Flat(rd.out)) <= rd.len
        /\ (rd.res = "eof" /\ ~rd.closed) => Len(Flat(rd.out)) = rd.len

\* C23: a write of no bytes to a streaming Response with a chunked body, in
\* the middle of the body, passes no byte to the stream.
C23_EmptyChunkDropped ==
    [][(\E m \in Msgs : ResWrite(m)) /\ wr.kind = "Chunked" /\ wr'.empties = wr.empties + 1
        => wr'.wire = wr.wire]_vars

\* C24: a request whose head has both Transfer-Encoding: chunked and
\* Content-Length is read as a chunked body.
C24_ChunkedWins ==
    (rd.phase = "body" /\ rd.te = "chunked" /\ rd.cl = "valid") => rd.kind = "Chunked"

\* the bytes that a ChunkedWriter passes to the stream for the writes of
\* ps, one after the other, and the end of the body
RECURSIVE WriteAll(_, _)
WriteAll(w, ps) == IF ps = <<>> THEN w ELSE WriteAll(HttpWriterWrite(w, Head(ps)), Tail(ps))
Encode(ps) == HttpWriterEnd(WriteAll([NoResponse EXCEPT !.kind = "Chunked"], ps)).wire

\* a ChunkedReader on a stream that holds bytes and is closed behind them,
\* and the reader after reads into a buffer of MaxLen bytes until one of
\* them does not answer Ok
ReaderOf(bytes) ==
    [NoReader EXCEPT !.phase = "body", !.method = "Post", !.te = "chunked", !.kind = "Chunked",
                     !.wire = bytes, !.closed = TRUE]
RECURSIVE ReadAll(_)
ReadAll(r) ==
    LET n == HttpReaderRead(r, MaxLen, MaxLen)
    IN  IF n.res = "ok" THEN ReadAll(n) ELSE n

\* the reader has read the body to its end: the chunk of size 0
Accepted(r) == r.kind = "Chunked" /\ r.res = "eof" /\ r.opt = U64Zero

\* C25: when the chunked reader has accepted what the peer sent, writing
\* the chunks that it delivered with the chunked writer and reading the
\* bytes written delivers the same chunks and ends at the end of the body.
C25_RoundTrip ==
    Accepted(rd) =>
        /\ Accepted(ReadAll(ReaderOf(Encode(rd.out))))
        /\ ReadAll(ReaderOf(Encode(rd.out))).out = rd.out
C25_Witness ==
    /\ Accepted(rd) /\ rd.out = <<<<"q">>, <<"w", "e">>, <<"r", "t">>>>
    /\ Encode(rd.out) = <<"1", "CR", "LF", "q", "CR", "LF", "2", "CR", "LF", "w", "e", "CR", "LF",
                          "2", "CR", "LF", "r", "t", "CR", "LF", "0", "CR", "LF", "CR", "LF">>

IsPrefix(s, t) == Len(s) <= Len(t) /\ s = SubSeq(t, 1, Len(s))

\* C26: of a chunked body whose size lines the grammar allows, the reads
\* deliver the data of the chunks in order and nothing else, no read fails,
\* and the end of the body is answered at the chunk of size 0 and only
\* there, when all the data has been delivered (chunks q, we, rt: qwert).
C26_ChunkedBody ==
    (rd.kind = "Chunked" /\ rd.framed) =>
        /\ rd.res \notin {"err", "panic"}
        /\ IsPrefix(Flat(rd.out), Flat(rd.chunks))
        /\ Accepted(rd) => (rd.last /\ Flat(rd.out) = Flat(rd.chunks))
        /\ (rd.res = "eof" /\ ~rd.closed) => Accepted(rd)
C26_Witness ==
    /\ Accepted(rd) /\ rd.framed /\ rd.last
    /\ rd.chunks = <<<<"q">>, <<"w", "e">>, <<"r", "t">>>>
    /\ Flat(rd.out) = <<"q", "w", "e", "r", "t">>

\* C27: read_chunk_size answers a size only for a size line of at most 16
\* hex digits, followed by nothing but spaces and tabs before an extension
\* (";") or the line ending: a byte that is no hex digit, garbage after
\* the size, or a 17th hex digit is answered with an error.
C27_BadLineIsErr ==
    rd.line_st = "ok" =>
        LET l == rd.line
            h == CHOOSE h \in 0..Len(l) :
                    /\ \A i \in 1..h : IsHexDigit(l[i])
                    /\ (h = Len(l) \/ ~IsHexDigit(l[h + 1]))
            j == CHOOSE j \in h..Len(l) :
                    /\ \A i \in (h + 1)..j : l[i] \in {"SP", "TAB"}
                    /\ (j = Len(l) \/ l[j + 1] \notin {"SP", "TAB"})
        IN  /\ h <= U64Digits
            /\ j < Len(l) /\ l[j + 1] \in {";", "CR"}

\* C28: a request whose head has neither Content-Length nor
\* Transfer-Encoding has an empty body whatever its method: no read
\* delivers a byte, every read answers the end of the body, and the bytes
\* that follow the head stay on the stream.
C28_NoFramingNoBody ==
    /\ []((rd.phase = "body" /\ rd.cl = "absent" /\ rd.te = "absent") =>
            (rd.kind = "Empty" /\ rd.out = <<>> /\ rd.res \in {"none", "eof"}))
    /\ [][(rd.phase = "body" /\ rd.cl = "absent" /\ rd.te = "absent"
            /\ \E n \in 1..MaxLen, k \in 1..MaxLen : Read(n, k))
          => (rd'.res = "eof" /\ rd'.wire = rd.wire)]_vars
C28_Witness ==
    /\ rd.phase = "body" /\ rd.method = "Post" /\ rd.cl = "absent" /\ rd.te = "absent"
    /\ rd.wire = <<"q", "CR">> /\ rd.res = "eof" /\ rd.out = <<>>

\* the bytes that the writer has passed to the stream: all that follows
\* the head that was written before the writer was made
BodyBytes(w) == DropN(w.wire, w.base)

\* C29: a SizedWriter made with the length N never passes more than N
\* bytes of body to the stream: what it has passed and what remains make N
\* as long as the stream has taken what the writer passed to it, and a
\* write of more than what remains passes the bytes that still fit, the
\* first of the message, and answers a short write.
C29_SizedWriterBound ==
    /\ [](wr.kind = "Sized" =>
            /\ Len(BodyBytes(wr)) <= wr.n
            /\ ~wr.broken => Len(BodyBytes(wr)) + wr.remaining = wr.n)
    /\ [][\A m \in Msgs :
            (ResWrite(m) /\ wr.kind = "Sized" /\ Len(m) > wr.remaining)
                => /\ wr'.wire = wr.wire \o TakeN(m, wr.remaining)
                   /\ wr'.res = "short" /\ wr'.remaining = 0]_vars
    /\ [][\A m \in Msgs :
            (ResWrite(m) /\ wr.kind = "Sized" /\ Len(m) <= wr.remaining)
                => (wr'.wire = wr.wire \o m /\ wr'.res = "ok")]_vars
C29_Witness ==
    /\ wr.state = "Streaming" /\ wr.kind = "Sized" /\ wr.cl = 2
    /\ wr.wire = <<"HEAD", "q", "w">> /\ wr.res = "short" /\ wr.remaining = 0

\* the number of heads on the wire, the terminator of a chunked body (the
\* chunk of size 0), the number of terminators on the wire
Heads(w) == Cardinality({i \in DOMAIN w.wire : w.wire[i] = "HEAD"})
Terminator == ToHex(0) \o LineEnding \o LineEnding
Terms(w) == Cardinality({i \in 1..(Len(w.wire) - 4) : SubSeq(w.wire, i, i + 4) = Terminator})
EndsWithTerminator(w) ==
    Len(w.wire) >= 5 /\ SubSeq(w.wire, Len(w.wire) - 4, Len(w.wire)) = Terminator

\* C30: a Response made by Response::new over a stream that takes every
\* write, finished in one of the four ways (send, start then end, start
\* then drop, drop while Fresh), has its head on the wire once, before all
\* else, and the terminator of a chunked body once, at the end.
C30_HeadAndTerminatorOnce ==
    (wr.state = "finished" /\ ~wr.framed /\ wr.res # "err"
        /\ wr.how \in {"send", "end", "drop", "fresh drop"})
    => /\ Heads(wr) = 1 /\ Head(wr.wire) = "HEAD"
       /\ wr.kind = "Chunked" => (Terms(wr) = 1 /\ EndsWithTerminator(wr))

\* ==================================================== claims: pool, two
\* C31: the interval task runs only on an enabled pool with a timeout; a
\* tick of it on a live pool leaves no idle entry that is closed or has
\* been idle longer than the timeout, changes nothing but the idle map,
\* and removes every key whose list became empty: the idle map holds a key
\* exactly when the key's list is not empty.
C31_IntervalEvicts ==
    /\ [](interval = "running" => (enabled /\ timeout.some))
    /\ [][(IntervalPoll /\ poolAlive) =>
            /\ \A k \in AllKeys : \A n \in 1..Len(idle'[k]) :
                  ~conn[idle'[k][n].conn].closed /\ ~(idle'[k][n].idle_for > timeout.dur)
            /\ \A k \in AllKeys : \A n \in 1..Len(idle[k]) :
                  (conn[idle[k][n].conn].closed \/ idle[k][n].idle_for > timeout.dur)
                      => ~InIdle(idle', k, idle[k][n].conn)
            /\ \A k \in AllKeys : idle'[k] = <<>> => k \notin idleKeys'
            /\ UNCHANGED <<parked, parkedKeys, connecting, ck, pooledH>>]_vars
    /\ [](\A k \in AllKeys : k \in idleKeys <=> idle[k] # <<>>)
\* the interval evicted a value, and the key with it
C31_Witness ==
    /\ poolAlive /\ interval = "running" /\ idleKeys = {}
    /\ \E c \in ConnIds : conn[c].st = "evicted"


\* C32: a first poll of a checkout for a key whose idle entries are all
\* closed or expired removes every one of them and the key itself from the
\* idle map, and the checkout is not resolved: it goes on to park.
C32_TakeRemovesAll ==
    [][\A i \in CkIds :
        LET key == ck'[i].key IN
        (TakeStep(i) /\ idle[key] # <<>> /\ \A n \in 1..Len(idle[key]) : Stale(idle[key][n]))
            => /\ idle'[key] = <<>>
               /\ key \notin idleKeys'
               /\ \A k \in AllKeys \ {key} : idle'[k] = idle[k] /\ (k \in idleKeys' <=> k \in idleKeys)
               /\ ck'[i].st = "polling"]_vars
\* the poll dropped the last handle of a stale value, and the key is gone
C32_Witness ==
    \E i \in CkIds, c \in ConnIds :
        /\ ck[i].st = "parked" /\ ck[i].val = 0 /\ ck[i].key \notin idleKeys
        /\ conn[c].st = "popped" /\ idle[ck[i].key] = <<>>


\* C33 as stated: whenever a Shared value is checked out, from the idle list
\* or on completion of its connect, its kept handle is in the key's idle
\* list when the given handle is returned.
C33_AsStated ==
    [][/\ \A c \in ConnIds :
            (PooledStep(c) /\ IsShared(c)) => InIdle(idle', conn[c].key, c)
       /\ \A i \in CkIds :
            (TakeStep(i) /\ ck'[i].st = "done" /\ IsShared(ck'[i].val))
                => InIdle(idle', ck'[i].key, ck'[i].val)]_vars

\* C33 amended: a Shared value checked out from the idle list is in the
\* key's idle list again, at the end and with a new idle time; a Shared
\* value checked out on completion of its connect is in the key's idle list
\* when the pool is enabled and the idle map had no entry for the key, and
\* otherwise the idle map is left as it was.
C33_SharedKept ==
    [][/\ \A c \in ConnIds :
            (PooledStep(c) /\ IsShared(c)) =>
                IF enabled /\ conn[c].key \notin idleKeys
                THEN InIdle(idle', conn[c].key, c) /\ conn[c].key \in idleKeys'
                ELSE idle' = idle /\ idleKeys' = idleKeys
       /\ \A i \in CkIds :
            (TakeStep(i) /\ ck'[i].st = "done" /\ IsShared(ck'[i].val))
                => /\ idle'[ck'[i].key] # <<>>
                   /\ idle'[ck'[i].key][Len(idle'[ck'[i].key])]
                          = [conn |-> ck'[i].val, idle_for |-> 0]
                   /\ ck'[i].key \in idleKeys']_vars
\* one Shared value was checked out on its connect and again from the idle
\* list, and is in the idle list
C33_Witness ==
    \E c \in ConnIds :
        /\ conn[c].st = "open" /\ IsShared(c) /\ enabled
        /\ pooledH[c].fresh = 1 /\ pooledH[c].reused = 1
        /\ InIdle(idle, conn[c].key, c)


\* C34: the drop of a parked checkout takes its sender out of the key's
\* parked queue and leaves no canceled sender in it; the parked map holds a
\* key exactly when the key's queue is not empty; a dropped checkout is in
\* no queue.
C34_DropCleansParked ==
    /\ [][\A i \in CkIds :
            (ck[i].st = "rxdropped" /\ ck'[i].st = "dropped") =>
                /\ i \notin SeqSet(parked'[ck[i].key])
                /\ \A j \in SeqSet(parked'[ck[i].key]) : ~IsCanceled(ck', j)
                /\ parked'[ck[i].key] = <<>> => ck[i].key \notin parkedKeys'
                /\ UNCHANGED <<idle, idleKeys, connecting>>]_vars
    /\ [](\A k \in AllKeys : k \in parkedKeys <=> parked[k] # <<>>)
    /\ [](\A i \in CkIds : ck[i].st = "dropped" => \A k \in AllKeys : i \notin SeqSet(parked[k]))
\* two checkouts parked while no connection was ever made, and both were
\* dropped: the parked map is empty
C34_Witness ==
    /\ \E i, j \in CkIds : i # j /\ ck[i].st = "dropped" /\ ck[j].st = "dropped"
    /\ \A c \in ConnIds : conn[c].st = "unused"
    /\ parkedKeys = {} /\ poolAlive


\* C35: the interval task ends only after the pool's last strong reference
\* was dropped; the poll that ends it changes nothing else; once ended it
\* stays ended; and after the pool was dropped no task is spawned and no
\* step evicts a value or changes the idle map, the parked map or the
\* connecting set.
C35_IntervalEndsWithPool ==
    /\ [][(interval' # interval /\ interval # "none") =>
            /\ ~poolAlive /\ interval = "running" /\ interval' = "done"
            /\ UNCHANGED <<enabled, timeout, poolAlive, connecting, idle, idleKeys, parked,
                           parkedKeys, conn, pooledH, ck>>]_vars
    /\ [][~poolAlive =>
            /\ UNCHANGED <<idle, idleKeys, parked, parkedKeys, connecting, poolAlive>>
            /\ interval = "none" => interval' = "none"
            /\ \A c \in ConnIds : conn'[c].st = "evicted" => conn[c].st = "evicted"]_vars
    /\ [](interval = "done" => ~poolAlive)
\* the task evicted a value, the pool was dropped, and the task ended
C35_Witness ==
    /\ interval = "done" /\ ~poolAlive
    /\ \E c \in ConnIds : conn[c].st = "evicted"


\* C36: a Pooled handle that reports is_reused() is a handle of a connection
\* whose value a dropped Pooled had given back to the pool, so a handle of a
\* connection that has only just been connected, a parked waiter's handle
\* included, reports false.
C36_ReusedOnlyAfterUse ==
    \A c \in ConnIds : pooledH[c].reused > 0 => c \in returned


\* C37: while the pool lives, the end of an HTTP/2 Connecting handle, by
\* pooled() or by its drop, finds its key in the connecting set and takes
\* it out; a key leaves the set only so; hence the set holds an HTTP/2 key
\* exactly while a Connecting handle of the key lives, and after the end
\* Pool::connecting grants the key again.
C37_ConnectingReleased ==
    /\ [][\A c \in ConnIds :
            (conn[c].st = "connecting" /\ conn'[c].st # "connecting" /\ IsH2(conn[c].key) /\ poolAlive)
                => /\ conn[c].key \in connecting
                   /\ conn[c].key \notin connecting'
                   /\ connecting' = connecting \ {conn[c].key}]_vars
    /\ [][\A k \in AllKeys : (k \in connecting /\ k \notin connecting' /\ poolAlive') =>
            \E c \in ConnIds : conn[c].st = "connecting" /\ conn[c].key = k
                               /\ conn'[c].st # "connecting"]_vars
    /\ [](poolAlive => \A k \in AllKeys :
            /\ k \in connecting <=> (IsH2(k) /\ LiveHandles(k) # {})
            /\ k \notin connecting => ConnectingGrants(k))
\* on an HTTP/2 key one connect failed, one succeeded, and a third was
\* granted for the key of the second
C37_Witness ==
    \E c0, c1, c2 \in ConnIds :
        /\ ver = "Http2" /\ poolAlive
        /\ conn[c0].st = "failed" /\ conn[c1].st = "open" /\ conn[c2].st = "connecting"
        /\ c0 < c1 /\ c1 < c2 /\ conn[c2].key = conn[c1].key
        /\ connecting = {conn[c2].key}


\* C38: when the Pooled of a non-closed Unique value is dropped while the
\* pool is alive and enabled, the value is kept, and right after the put it
\* is in the channel of exactly one parked checkout or exactly once in the
\* idle list of its key, also when waiters cancel during the put.
C38_UniqueNeverLost ==
    [][\A c \in ConnIds :
        (DropStep(c) /\ ~IsClosed(c) /\ ~IsShared(c) /\ enabled /\ poolAlive) =>
            /\ conn'[c] = conn[c]
            /\ Handles(pooledH', c) = 0
            /\ Cardinality({i \in CkIds : ck'[i].st = "parked" /\ ck'[i].val = c})
               + Cardinality({n \in 1..Len(idle'[conn[c].key]) : idle'[conn[c].key][n].conn = c}) = 1
            /\ \A k \in AllKeys \ {conn[c].key} : ~InIdle(idle', k, c)
            /\ \A i \in CkIds : ck'[i].val = c => ck[i].key = conn[c].key]_vars
\* a waiter's receiver was dropped, the put went past its sender, and the
\* value is in the idle list
C38_Witness ==
    \E c \in ConnIds, i \in CkIds :
        /\ conn[c].st = "open" /\ ~IsShared(c) /\ ~IsClosed(c) /\ c \in returned
        /\ Handles(pooledH, c) = 0 /\ InIdle(idle, conn[c].key, c)
        /\ ck[i].st = "rxdropped" /\ ck[i].key = conn[c].key
        /\ parked[conn[c].key] = <<>> /\ enabled /\ poolAlive


\* C39: at any instant, for every idle entry of a pool with a timeout whose
\* value is not closed, take() treats the entry as expired exactly when
\* clear_expired would evict it.
C39_ExpiryChecksAgree ==
    timeout.some =>
        \A k \in AllKeys : \A n \in 1..Len(idle[k]) :
            ~IsClosed(idle[k][n].conn) =>
                (Expires(timeout, idle[k][n].idle_for)
                    <=> RetainFresh(<<idle[k][n]>>, conn, timeout.dur) = <<>>)


\* ============================================ claims: client dispatcher
\* C40: when the client's dispatcher is gone, because its future completed
\* or because it was dropped, no request that it took from the queue is
\* left with a callback that was not completed while the response future of
\* the request still waits.
C40_CallbackCompleted ==
    (dp.role = "client" /\ dp.phase \in {"done", "dropped"}) => dp.callback # "some"

====
